---- MODULE Spec2Model ----
(***************************************************************************)
(* MATHLDBT v1 columnar codec: owned batches, borrowed views, the encoder  *)
(* (owned and fast path), the strict decoder (allocating and in place),    *)
(* the reusable workspaces and the compression wrapper.  Bytes are         *)
(* integers 0..255; a 64-bit word is a sequence of 64 bits, least          *)
(* significant first, so shifts, xor and wrapping arithmetic keep their    *)
(* width.  A fixed-width value is its little-endian byte image (what the   *)
(* little-endian build copies to and from the wire).                       *)
(***************************************************************************)
EXTENDS Integers, Sequences, FiniteSets, TLC

VARIABLES
    batch,      \* the batch handed to the encoder by the last encode call
    view,       \* the borrowed view handed to the fast-path encoder
    ws,         \* MathldbtV1EncodeWorkspace of the caller
    out,        \* the caller's output byte buffer
    res,        \* result of the last call: "Ok" or the error message, "none" at start
    op,         \* the last call made
    dws,        \* MathldbtV1DecodeWorkspace of the caller
    decoded,    \* the batch returned by the last allocating decode, <<>> if none
    target,     \* the caller's target batch of the in-place decode
    cws,        \* MathldbtV1CompressedEncodeWorkspace of the caller
    cdws,       \* MathldbtV1CompressedDecodeWorkspace of the caller
    comp,       \* Compression scheme of the last compressed call
    bound,      \* max_uncompressed_len of the last compressed decode
    bitmap,     \* the bytes of the ValidityBitmap the caller is building
    bitmap_rows, \* the row count that bitmap was constructed for
    row_idx,    \* the row index passed to the last set / is_valid call
    call_arg,   \* the argument of the last call of a private helper of the codec
    call_ret    \* what that call returned

vars ==
    <<batch, view, ws, out, res, op, dws, decoded, target, cws, cdws, comp, bound, bitmap,
      bitmap_rows, row_idx, call_arg, call_ret>>

-----------------------------------------------------------------------------
(* Bounds of the model *)

MaxRows == 3
MaxData == 3

-----------------------------------------------------------------------------
(* Bytes, little-endian integers *)

\* the element of a singleton set: The({e(r) : r \in {call}}) is e of the result of one
\* evaluation of the call
The(S) == CHOOSE x \in S : TRUE

RECURSIVE Pow2(_)
Pow2(n) == IF n = 0 THEN 1 ELSE 2 * Pow2(n - 1)

\* u16::to_le_bytes
write_u16_le(v) == <<v % 256, (v \div 256) % 256>>

\* u32::to_le_bytes
write_u32_le(v) == <<v % 256, (v \div 256) % 256, (v \div 65536) % 256, (v \div 16777216) % 256>>

\* u32::from_le_bytes of the four bytes of b after position p (0-based)
u32_from_le(b, p) == b[p + 1] + 256 * b[p + 2] + 65536 * b[p + 3] + 16777216 * b[p + 4]

\* u16::from_le_bytes of the two bytes of b after position p (0-based)
u16_from_le(b, p) == b[p + 1] + 256 * b[p + 2]

\* the sub-slice b[from..to] with 0-based half-open bounds
Slice(b, from, to) == [i \in 1..(to - from) |-> b[from + i]]

RECURSIVE Flatten(_)
Flatten(ss) == IF ss = <<>> THEN <<>> ELSE Head(ss) \o Flatten(Tail(ss))

Reverse(s) == [i \in 1..Len(s) |-> s[Len(s) + 1 - i]]

\* a payload cut into consecutive elements of size bytes each
Chunked(b, size) == [i \in 1..(Len(b) \div size) |-> Slice(b, (i - 1) * size, i * size)]

-----------------------------------------------------------------------------
(* 64-bit words *)

WordBits == 64

ZeroWord == [i \in 1..WordBits |-> 0]

\* i64::from_le_bytes / u64::from_le_bytes
WordFromLE(b) == [i \in 1..WordBits |-> (b[((i - 1) \div 8) + 1] \div Pow2((i - 1) % 8)) % 2]

\* to_le_bytes
WordToLE(w) == [k \in 1..8 |->
    w[8*k-7] + 2*w[8*k-6] + 4*w[8*k-5] + 8*w[8*k-4] + 16*w[8*k-3] + 32*w[8*k-2] + 64*w[8*k-1] + 128*w[8*k]]

\* a small natural as a word (n < 256)
WordOfByte(n) == WordFromLE(<<n, 0, 0, 0, 0, 0, 0, 0>>)

WShl(w, k) == [i \in 1..WordBits |-> IF i > k THEN w[i - k] ELSE 0]
WLshr(w, k) == [i \in 1..WordBits |-> IF i + k <= WordBits THEN w[i + k] ELSE 0]
WAshr(w, k) == [i \in 1..WordBits |-> IF i + k <= WordBits THEN w[i + k] ELSE w[WordBits]]
WXor(a, b) == [i \in 1..WordBits |-> (a[i] + b[i]) % 2]
WAnd(a, b) == [i \in 1..WordBits |-> a[i] * b[i]]
WOr(a, b) == [i \in 1..WordBits |-> IF a[i] + b[i] > 0 THEN 1 ELSE 0]
WNot(a) == [i \in 1..WordBits |-> 1 - a[i]]

RECURSIVE AddBytes(_, _, _, _, _)
\* byte-wise addition with carry of two 8-byte little-endian images, carry out dropped
AddBytes(a, b, i, c, acc) ==
    IF i > 8 THEN acc
    ELSE AddBytes(a, b, i + 1, (a[i] + b[i] + c) \div 256, Append(acc, (a[i] + b[i] + c) % 256))

\* i64::wrapping_add
wrapping_add(a, b) == WordFromLE(AddBytes(WordToLE(a), WordToLE(b), 1, 0, <<>>))

\* wrapping negation (two's complement)
WNeg(a) == WordFromLE(AddBytes(WordToLE(WNot(a)), WordToLE(ZeroWord), 1, 1, <<>>))

\* i64::wrapping_sub
wrapping_sub(a, b) == WordFromLE(AddBytes(WordToLE(a), WordToLE(WNot(b)), 1, 1, <<>>))

\* zigzag_i64_to_u64: ((x as u64) << 1) ^ (((x >> 63) as u64) & 1)
zigzag_i64_to_u64(x) == WXor(WShl(x, 1), WAnd(WAshr(x, 63), WordOfByte(1)))

\* zigzag_u64_to_i64: v = (x >> 1) as i64; neg = (x & 1) as i64; v ^ -neg
zigzag_u64_to_i64(x) == WXor(WLshr(x, 1), WNeg(WAnd(x, WordOfByte(1))))

\* x as u8
LowByte(w) == WordToLE(w)[1]

\* x >= 0x80
WGe80(w) == \E i \in 8..WordBits : w[i] = 1

\* write_u64_varint: the bytes pushed for x
RECURSIVE write_u64_varint(_)
write_u64_varint(x) ==
    IF WGe80(x) THEN <<(LowByte(x) % 128) + 128>> \o write_u64_varint(WLshr(x, 7))
    ELSE <<LowByte(x)>>

\* read_u64_varint: the loop from position pos with accumulator x and shift
RECURSIVE read_varint_loop(_, _, _, _)
read_varint_loop(bytes, pos, x, shift) ==
    IF pos >= Len(bytes) THEN [err |-> "truncated varint", val |-> x, pos |-> pos]
    ELSE LET b == bytes[pos + 1]
             lo == WordOfByte(b % 128)
         IN IF shift >= 64 THEN [err |-> "varint overflow", val |-> x, pos |-> pos + 1]
            ELSE LET x2 == WOr(x, WShl(lo, shift))
                 IN IF b < 128 THEN [err |-> "Ok", val |-> x2, pos |-> pos + 1]
                    ELSE read_varint_loop(bytes, pos + 1, x2, shift + 7)

read_u64_varint(bytes, pos) == read_varint_loop(bytes, pos, ZeroWord, 0)

-----------------------------------------------------------------------------
(* Column types, schema, owned columns *)

ColumnarType == {"Bool", "I16", "I32", "I64", "F32", "F64", "Uuid", "TimestampTzMicros",
                 "Utf8", "Bytes", "JsonbText"}

VarTypes == {"Utf8", "Bytes", "JsonbText"}

type_id(ty) ==
    CASE ty = "Bool" -> 1 [] ty = "I16" -> 2 [] ty = "I32" -> 3 [] ty = "I64" -> 4
      [] ty = "F32" -> 5 [] ty = "F64" -> 6 [] ty = "Uuid" -> 7
      [] ty = "TimestampTzMicros" -> 8 [] ty = "Utf8" -> 9 [] ty = "Bytes" -> 10
      [] ty = "JsonbText" -> 11

\* type_from_id: "unknown" stands for Err("unknown column type id: N")
type_from_id(id) ==
    IF \E ty \in ColumnarType : type_id(ty) = id
    THEN CHOOSE ty \in ColumnarType : type_id(ty) = id
    ELSE "unknown"

\* bytes per element of the values vector of each fixed variant
elem_size(ty) ==
    CASE ty = "Bool" -> 1 [] ty = "I16" -> 2 [] ty = "I32" -> 4 [] ty = "I64" -> 8
      [] ty = "F32" -> 4 [] ty = "F64" -> 8 [] ty = "Uuid" -> 16
      [] ty = "TimestampTzMicros" -> 8

\* the ColumnData variant that carries each fixed type
FixedVariant(ty) ==
    CASE ty = "Bool" -> "FixedBool" [] ty = "I16" -> "FixedI16" [] ty = "I32" -> "FixedI32"
      [] ty = "I64" -> "FixedI64" [] ty = "F32" -> "FixedF32Bits" [] ty = "F64" -> "FixedF64Bits"
      [] ty = "Uuid" -> "FixedUuid" [] ty = "TimestampTzMicros" -> "FixedTimestampMicros"

\* ColumnData::ty (the same for ColumnDataView::ty)
ColTy(col) ==
    IF col.variant = "Var" THEN col.ty
    ELSE CHOOSE ty \in ColumnarType \ VarTypes : FixedVariant(ty) = col.variant

\* Option<String> of a field name: None, or Some of its UTF-8 bytes
NoName == [some |-> FALSE, bytes |-> <<>>]
SomeName(b) == [some |-> TRUE, bytes |-> b]

\* ceil_div_8 (the overflow of n + 7 is out of reach of the bounds)
ceil_div_8(n) == (n + 7) \div 8

\* bit row of a validity byte vector
BitSet(validity, row) == (validity[(row \div 8) + 1] \div Pow2(row % 8)) % 2 = 1

RECURSIVE FirstDecrease(_, _, _)
\* the loop "if o < prev return Err; prev = o" over offsets from index i
FirstDecrease(offsets, i, prev) ==
    IF i > Len(offsets) THEN FALSE
    ELSE IF offsets[i] < prev THEN TRUE
    ELSE FirstDecrease(offsets, i + 1, offsets[i])

\* validate_for_row_count without the check of offsets[0]
validate_without_first_offset(col, ty, row_count) ==
    IF ColTy(col) # ty THEN "column type mismatch"
    ELSE IF Len(col.validity) # ceil_div_8(row_count) THEN "validity length mismatch"
    ELSE IF col.variant # "Var"
         THEN IF Len(col.values) # row_count THEN "values length mismatch" ELSE "Ok"
    ELSE IF Len(col.offsets) # row_count + 1 THEN "offsets length mismatch"
    ELSE IF FirstDecrease(col.offsets, 1, 0) THEN "offsets must be non-decreasing"
    ELSE IF col.offsets[Len(col.offsets)] # Len(col.data) THEN "final offset mismatch"
    ELSE "Ok"

\* validate_for_row_count with the final offset compared before the order of the offsets
validate_final_offset_first(col, ty, row_count) ==
    IF ColTy(col) # ty THEN "column type mismatch"
    ELSE IF Len(col.validity) # ceil_div_8(row_count) THEN "validity length mismatch"
    ELSE IF col.variant # "Var"
         THEN IF Len(col.values) # row_count THEN "values length mismatch" ELSE "Ok"
    ELSE IF Len(col.offsets) # row_count + 1 THEN "offsets length mismatch"
    ELSE IF (IF col.offsets = <<>> THEN 1 ELSE col.offsets[1]) # 0 THEN "offsets[0] must be 0"
    ELSE IF col.offsets[Len(col.offsets)] # Len(col.data) THEN "final offset mismatch"
    ELSE IF FirstDecrease(col.offsets, 1, 0) THEN "offsets must be non-decreasing"
    ELSE "Ok"

\* ColumnData::validate_for_row_count ("data too large" needs more than u32::MAX bytes)
validate_for_row_count(col, ty, row_count) ==
    IF ColTy(col) # ty THEN "column type mismatch"
    ELSE IF Len(col.validity) # ceil_div_8(row_count) THEN "validity length mismatch"
    ELSE IF col.variant # "Var"
         THEN IF Len(col.values) # row_count THEN "values length mismatch" ELSE "Ok"
    ELSE IF Len(col.offsets) # row_count + 1 THEN "offsets length mismatch"
    ELSE IF (IF col.offsets = <<>> THEN 1 ELSE col.offsets[1]) # 0 THEN "offsets[0] must be 0"
    ELSE IF FirstDecrease(col.offsets, 1, 0) THEN "offsets must be non-decreasing"
    ELSE IF col.offsets[Len(col.offsets)] # Len(col.data) THEN "final offset mismatch"
    ELSE "Ok"

RECURSIVE validate_zip(_, _, _, _)
validate_zip(fields, columns, row_count, i) ==
    IF i > Len(fields) \/ i > Len(columns) THEN "Ok"
    ELSE LET r == validate_for_row_count(columns[i], fields[i].ty, row_count)
         IN IF r # "Ok" THEN r ELSE validate_zip(fields, columns, row_count, i + 1)

\* ColumnarBatch::validate
validate(b) ==
    IF b.schema = <<>> THEN "columnar schema must have at least one field"
    ELSE IF Len(b.schema) # Len(b.columns) THEN "schema/columns length mismatch"
    ELSE validate_zip(b.schema, b.columns, b.row_count, 1)

-----------------------------------------------------------------------------
(* Borrowed views: a Var column's data is Contiguous(bytes) or Chunks{inline, chunks} *)

Contiguous(bytes) == [kind |-> "Contiguous", bytes |-> bytes]
Chunks(inline, chunks) == [kind |-> "Chunks", inline |-> inline, chunks |-> chunks]

RECURSIVE SumLen(_)
SumLen(ss) == IF ss = <<>> THEN 0 ELSE Len(Head(ss)) + SumLen(Tail(ss))

\* VarDataView::len counting the inline slice only
var_data_view_len_inline_only(d) ==
    IF d.kind = "Contiguous" THEN Len(d.bytes) ELSE Len(d.inline)

\* VarDataView::len
VarDataView_len(d) ==
    IF d.kind = "Contiguous" THEN Len(d.bytes) ELSE Len(d.inline) + SumLen(d.chunks)

\* ColumnDataView::validate_for_row_count
view_validate_for_row_count(col, ty, row_count) ==
    IF ColTy(col) # ty THEN "column type mismatch"
    ELSE IF Len(col.validity) # ceil_div_8(row_count) THEN "validity length mismatch"
    ELSE IF col.variant # "Var"
         THEN IF Len(col.values) # row_count THEN "values length mismatch" ELSE "Ok"
    ELSE LET data_len == VarDataView_len(col.data)
         IN IF Len(col.offsets) # row_count + 1 THEN "offsets length mismatch"
            ELSE IF (IF col.offsets = <<>> THEN 1 ELSE col.offsets[1]) # 0 THEN "offsets[0] must be 0"
            ELSE IF FirstDecrease(col.offsets, 1, 0) THEN "offsets must be non-decreasing"
            ELSE IF col.offsets[Len(col.offsets)] # data_len THEN "final offset mismatch"
            ELSE "Ok"

RECURSIVE view_validate_zip(_, _, _, _)
view_validate_zip(fields, columns, row_count, i) ==
    IF i > Len(fields) \/ i > Len(columns) THEN "Ok"
    ELSE LET r == view_validate_for_row_count(columns[i], fields[i].ty, row_count)
         IN IF r # "Ok" THEN r ELSE view_validate_zip(fields, columns, row_count, i + 1)

\* ColumnarBatchView::validate
view_validate(v) ==
    IF v.schema = <<>> THEN "columnar schema must have at least one field"
    ELSE IF Len(v.schema) # Len(v.columns) THEN "schema/columns length mismatch"
    ELSE view_validate_zip(v.schema, v.columns, v.row_count, 1)

-----------------------------------------------------------------------------
(* Encode workspace and the two candidate-payload builders *)

\* MathldbtV1EncodeWorkspace::default()
DefaultEncodeWorkspace ==
    [enable_dict_utf8 |-> FALSE, enable_delta_varint_i64 |-> FALSE,
     dict_values |-> <<>>, dict_map |-> <<>>, dict_indices |-> <<>>,
     dict_indices_bytes |-> <<>>, dict_offsets |-> <<>>, dict_blob |-> <<>>,
     view_var_coalesce |-> <<>>, delta_buf |-> <<>>]

\* validity_all_valid
validity_all_valid(validity, row_count) ==
    IF row_count = 0 THEN TRUE
    ELSE LET needed == (row_count + 7) \div 8
             rem == row_count % 8
             full == IF rem = 0 THEN needed ELSE needed - 1
         IN IF Len(validity) < needed THEN FALSE
            ELSE IF \E i \in 1..full : validity[i] # 255 THEN FALSE
            ELSE IF rem = 0 THEN TRUE
            ELSE (validity[needed] % Pow2(rem)) = Pow2(rem) - 1

RECURSIVE DeltaVarints(_, _)
\* the loop of build_delta_varint_i64_payload over values[1..]: the varints of the zig-zag deltas
DeltaVarints(values, i) ==
    IF i > Len(values) THEN <<>>
    ELSE write_u64_varint(zigzag_i64_to_u64(
             wrapping_sub(WordFromLE(values[i]), WordFromLE(values[i - 1]))))
         \o DeltaVarints(values, i + 1)

\* build_delta_varint_i64_payload without the clear of ws.delta_buf
build_delta_keeps_buffer(w, values) ==
    IF values = <<>> THEN [some |-> FALSE, ws |-> w, payload |-> <<>>]
    ELSE LET buf == w.delta_buf \o values[1] \o DeltaVarints(values, 2)
             w2 == [w EXCEPT !.delta_buf = buf]
         IN IF Len(buf) >= Len(values) * 8
            THEN [some |-> FALSE, ws |-> w2, payload |-> <<>>]
            ELSE [some |-> TRUE, ws |-> w2, payload |-> buf]

\* build_delta_varint_i64_payload committing when the candidate is as large as plain
build_delta_commits_on_tie(w, values) ==
    IF values = <<>> THEN [some |-> FALSE, ws |-> w, payload |-> <<>>]
    ELSE LET buf == values[1] \o DeltaVarints(values, 2)
             w2 == [w EXCEPT !.delta_buf = buf]
         IN IF Len(buf) > Len(values) * 8
            THEN [some |-> FALSE, ws |-> w2, payload |-> <<>>]
            ELSE [some |-> TRUE, ws |-> w2, payload |-> buf]

\* build_delta_varint_i64_payload: some = FALSE is Ok(None), else payload is ws.delta_buf
build_delta_varint_i64_payload(w, values) ==
    IF values = <<>> THEN [some |-> FALSE, ws |-> w, payload |-> <<>>]
    ELSE LET cleared == <<>>
             buf == cleared \o values[1] \o DeltaVarints(values, 2)
             w2 == [w EXCEPT !.delta_buf = buf]
         IN IF Len(buf) >= Len(values) * 8
            THEN [some |-> FALSE, ws |-> w2, payload |-> <<>>]
            ELSE [some |-> TRUE, ws |-> w2, payload |-> buf]

\* HashMap::insert
MapInsert(m, key, idx) == [k \in (DOMAIN m) \cup {key} |-> IF k = key THEN idx ELSE m[k]]

RECURSIVE dict_scan_repeats_last_index(_, _, _, _, _, _)
\* the row loop with a repeated value given the index of the newest entry instead of
\* the one the map holds
dict_scan_repeats_last_index(validity, row_count, offsets, data, row, st) ==
    IF row >= row_count THEN st
    ELSE IF ~BitSet(validity, row)
         THEN dict_scan_repeats_last_index(validity, row_count, offsets, data, row + 1,
                                           [st EXCEPT !.dict_indices = Append(@, 0)])
    ELSE LET start == offsets[row + 1]
             end == offsets[row + 2]
         IN IF end < start \/ end > Len(data) THEN [st EXCEPT !.err = "offset out of bounds"]
            ELSE LET bytes == Slice(data, start, end)
                     idx == IF bytes \in DOMAIN st.dict_map THEN Len(st.dict_values) - 1
                            ELSE Len(st.dict_values)
                 IN dict_scan_repeats_last_index(
                        validity, row_count, offsets, data, row + 1,
                        [st EXCEPT !.dict_values = IF bytes \in DOMAIN st.dict_map THEN @
                                                   ELSE Append(@, bytes),
                                   !.dict_map = MapInsert(@, bytes, idx),
                                   !.dict_indices = Append(@, idx)])

RECURSIVE DictScan(_, _, _, _, _, _)
\* the row loop of build_dict_utf8_payload; st holds dict_values, dict_map, dict_indices
DictScan(validity, row_count, offsets, data, row, st) ==
    IF row >= row_count THEN st
    ELSE IF ~BitSet(validity, row)
         THEN DictScan(validity, row_count, offsets, data, row + 1,
                       [st EXCEPT !.dict_indices = Append(@, 0)])
    ELSE LET start == offsets[row + 1]
             end == offsets[row + 2]
         IN IF end < start \/ end > Len(data) THEN [st EXCEPT !.err = "offset out of bounds"]
            ELSE LET bytes == Slice(data, start, end)
                 IN IF bytes \in DOMAIN st.dict_map
                    THEN DictScan(validity, row_count, offsets, data, row + 1,
                                  [st EXCEPT !.dict_indices = Append(@, st.dict_map[bytes])])
                    ELSE LET idx == Len(st.dict_values)
                         IN DictScan(validity, row_count, offsets, data, row + 1,
                                     [st EXCEPT !.dict_values = Append(@, bytes),
                                                !.dict_map = MapInsert(@, bytes, idx),
                                                !.dict_indices = Append(@, idx)])

\* index width chosen for a dictionary of dict_count entries
index_width_for(dict_count) ==
    IF dict_count <= 256 THEN 1 ELSE IF dict_count <= 65536 THEN 2 ELSE 4

\* the byte image of the index vector for a width
IndexBytes(indices, width) ==
    Flatten([i \in 1..Len(indices) |->
        IF width = 1 THEN <<indices[i] % 256>>
        ELSE IF width = 2 THEN write_u16_le(indices[i])
        ELSE write_u32_le(indices[i])])

RECURSIVE DictOffsets(_, _, _)
\* dict_offsets: 0 followed by the running total of the entry lengths
DictOffsets(values, i, total) ==
    IF i > Len(values) THEN <<>>
    ELSE <<total + Len(values[i])>> \o DictOffsets(values, i + 1, total + Len(values[i]))

\* build_dict_utf8_payload: err # "Ok" is Err, some = FALSE is Ok(None),
\* else (idx_bytes, dict_blob) are ws.dict_indices_bytes and ws.dict_blob
build_dict_utf8_payload(w, validity, row_count, offsets, data) ==
    IF row_count = 0 \/ Len(offsets) # row_count + 1
    THEN [err |-> "Ok", some |-> FALSE, ws |-> w, idx_bytes |-> <<>>, dict_blob |-> <<>>]
    ELSE
    LET st0 == [err |-> "Ok", dict_values |-> <<>>, dict_map |-> <<>>, dict_indices |-> <<>>]
        st == DictScan(validity, row_count, offsets, data, 0, st0)
        w1 == [w EXCEPT !.dict_values = st.dict_values, !.dict_map = st.dict_map,
                        !.dict_indices = st.dict_indices]
        dict_count == Len(st.dict_values)
        index_width == index_width_for(dict_count)
        indices_bytes == IndexBytes(st.dict_indices, index_width)
        dict_offsets == <<0>> \o DictOffsets(st.dict_values, 1, 0)
        blob == <<index_width>> \o write_u32_le(dict_count)
                \o Flatten([i \in 1..Len(dict_offsets) |-> write_u32_le(dict_offsets[i])])
                \o Flatten(st.dict_values)
        w2 == [w1 EXCEPT !.dict_indices_bytes = indices_bytes, !.dict_offsets = dict_offsets,
                         !.dict_blob = blob]
        plain_total == (row_count + 1) * 4 + Len(data)
        dict_total == Len(indices_bytes) + Len(blob)
    IN IF st.err # "Ok"
       THEN [err |-> st.err, some |-> FALSE, ws |-> w1, idx_bytes |-> <<>>, dict_blob |-> <<>>]
       ELSE IF dict_count = 0
       THEN [err |-> "Ok", some |-> FALSE, ws |-> w1, idx_bytes |-> <<>>, dict_blob |-> <<>>]
       ELSE IF dict_total >= plain_total
       THEN [err |-> "Ok", some |-> FALSE, ws |-> w2, idx_bytes |-> <<>>, dict_blob |-> <<>>]
       ELSE [err |-> "Ok", some |-> TRUE, ws |-> w2, idx_bytes |-> indices_bytes,
             dict_blob |-> blob]

-----------------------------------------------------------------------------
(* Encoders *)

\* b"MATHLDBT"
MAGIC == <<77, 65, 84, 72, 76, 68, 66, 84>>
VERSION == 1
ENC_PLAIN == 0
PgBeFixed == 1
ENC_DICT_UTF8 == 2
ENC_DELTA_VARINT_I64 == 3

\* write_u16_len_bytes ("name too long" needs a name of more than 65535 bytes)
write_u16_len_bytes(bytes) == write_u16_le(Len(bytes)) \o bytes

\* write_u32_len_bytes ("payload too large" needs more than u32::MAX bytes)
write_u32_len_bytes(bytes) == write_u32_le(Len(bytes)) \o bytes

\* the frame header both encoders write after clearing the buffer
FrameHeader(row_count, col_count) ==
    MAGIC \o write_u16_le(VERSION) \o write_u16_le(0) \o write_u32_le(row_count)
          \o write_u16_le(col_count) \o write_u16_le(0)

\* DeltaCandidate without the test that every row is valid
delta_candidate_any_validity(w, field, col, row_count) ==
    /\ col.variant \in {"FixedI64", "FixedTimestampMicros"}
    /\ w.enable_delta_varint_i64
    /\ field.ty = (IF col.variant = "FixedI64" THEN "I64" ELSE "TimestampTzMicros")

\* the delta candidate of an I64 / TimestampTzMicros column (both encoders)
DeltaCandidate(w, field, col, row_count) ==
    /\ col.variant \in {"FixedI64", "FixedTimestampMicros"}
    /\ w.enable_delta_varint_i64
    /\ field.ty = (IF col.variant = "FixedI64" THEN "I64" ELSE "TimestampTzMicros")
    /\ validity_all_valid(col.validity, row_count)

\* encoding selection of the owned encoder: the id and the staged payloads
select_encoding(w, field, col, row_count) ==
    IF col.variant = "Var" /\ w.enable_dict_utf8 /\ col.ty \in {"Utf8", "JsonbText"}
    THEN The({[err |-> r.err, ws |-> r.ws,
               id |-> IF r.some THEN ENC_DICT_UTF8 ELSE ENC_PLAIN,
               p1 |-> r.idx_bytes, p2 |-> r.dict_blob] :
              r \in {build_dict_utf8_payload(w, col.validity, row_count, col.offsets,
                                             col.data)}})
    ELSE IF DeltaCandidate(w, field, col, row_count)
    THEN The({[err |-> "Ok", ws |-> r.ws,
               id |-> IF r.some THEN ENC_DELTA_VARINT_I64 ELSE ENC_PLAIN,
               p1 |-> r.payload, p2 |-> <<>>] :
              r \in {build_delta_varint_i64_payload(w, col.values)}})
    ELSE [err |-> "Ok", ws |-> w, id |-> ENC_PLAIN, p1 |-> <<>>, p2 |-> <<>>]

\* the payload part of a fixed-width column (the same match arms in both encoders)
fixed_payloads(col, row_count, sel) ==
    IF Len(col.values) # row_count THEN [err |-> "values length mismatch", bytes |-> <<>>]
    ELSE IF sel.id = ENC_DELTA_VARINT_I64
    THEN [err |-> "Ok", bytes |-> write_u32_len_bytes(sel.p1) \o write_u32_le(0)]
    ELSE [err |-> "Ok",
          bytes |-> write_u32_le(row_count * elem_size(ColTy(col))) \o Flatten(col.values)
                    \o write_u32_le(0)]

\* the payload part of a variable-length column of an owned batch
var_payloads(field, col, row_count, sel) ==
    IF col.ty # field.ty THEN [err |-> "internal type mismatch", bytes |-> <<>>]
    ELSE IF sel.id = ENC_PLAIN
    THEN IF Len(col.offsets) # row_count + 1
         THEN [err |-> "offsets length mismatch", bytes |-> <<>>]
         ELSE [err |-> "Ok",
               bytes |-> write_u32_le((row_count + 1) * 4)
                         \o Flatten([i \in 1..Len(col.offsets) |-> write_u32_le(col.offsets[i])])
                         \o write_u32_len_bytes(col.data)]
    ELSE [err |-> "Ok", bytes |-> write_u32_len_bytes(sel.p1) \o write_u32_len_bytes(sel.p2)]

\* one iteration of the column loop of encode_mathldbt_v1_into_with_workspace:
\* the bytes appended to out (also on failure) and the workspace afterwards
encode_column(w, field, col, row_count) ==
    LET tid == write_u16_le(type_id(field.ty))
    IN IF Len(col.validity) # ceil_div_8(row_count)
       THEN [err |-> "validity length mismatch", bytes |-> tid, ws |-> w]
       ELSE The({IF sel.err # "Ok" THEN [err |-> sel.err, bytes |-> tid, ws |-> sel.ws]
                 ELSE The({[err |-> pay.err, ws |-> sel.ws,
                            bytes |-> tid \o write_u16_le(sel.id) \o write_u16_le(0)
                                      \o write_u16_len_bytes(field.name.bytes)
                                      \o write_u32_len_bytes(col.validity) \o pay.bytes] :
                           pay \in {IF col.variant = "Var"
                                    THEN var_payloads(field, col, row_count, sel)
                                    ELSE fixed_payloads(col, row_count, sel)}}) :
                 sel \in {select_encoding(w, field, col, row_count)}})

RECURSIVE encode_columns(_, _, _, _, _, _)
encode_columns(fields, columns, row_count, i, w, acc) ==
    IF i > Len(fields) \/ i > Len(columns) THEN [err |-> "Ok", out |-> acc, ws |-> w]
    ELSE The({IF r.err # "Ok" THEN [err |-> r.err, out |-> acc \o r.bytes, ws |-> r.ws]
              ELSE encode_columns(fields, columns, row_count, i + 1, r.ws, acc \o r.bytes) :
              r \in {encode_column(w, fields[i], columns[i], row_count)}})

\* encode_mathldbt_v1_into_with_workspace(batch, out, ws): the result, out and ws afterwards
encode_mathldbt_v1_into_with_workspace(b, out0, w) ==
    LET v == validate(b)
    IN IF v # "Ok" THEN [err |-> v, out |-> out0, ws |-> w]
       ELSE IF Len(b.columns) = 0
       THEN [err |-> "MATHLDBT must have at least one column",
             out |-> MAGIC \o write_u16_le(VERSION) \o write_u16_le(0) \o write_u32_le(b.row_count),
             ws |-> w]
       ELSE encode_columns(b.schema, b.columns, b.row_count, 1, w,
                           FrameHeader(b.row_count, Len(b.columns)))

-----------------------------------------------------------------------------
(* Fast-path encoder over a borrowed view *)

\* encoding selection of the fast path; chunked data is coalesced into the buffer taken
\* out of ws.view_var_coalesce, which is put back at once on Err and after the column on Ok
fast_select_encoding(w, field, col, row_count) ==
    IF col.variant = "Var" /\ w.enable_dict_utf8 /\ col.ty \in {"Utf8", "JsonbText"}
    THEN IF col.data.kind = "Contiguous"
         THEN The({[err |-> r.err, ws |-> r.ws,
                    id |-> IF r.some THEN ENC_DICT_UTF8 ELSE ENC_PLAIN,
                    p1 |-> r.idx_bytes, p2 |-> r.dict_blob,
                    restore |-> FALSE, coalesced |-> <<>>] :
                   r \in {build_dict_utf8_payload(w, col.validity, row_count, col.offsets,
                                                  col.data.bytes)}})
         ELSE The({The({IF r.err # "Ok"
                        THEN [err |-> r.err,
                              ws |-> [r.ws EXCEPT !.view_var_coalesce = coalesced],
                              id |-> ENC_PLAIN, p1 |-> <<>>, p2 |-> <<>>,
                              restore |-> FALSE, coalesced |-> <<>>]
                        ELSE [err |-> "Ok", ws |-> r.ws,
                              id |-> IF r.some THEN ENC_DICT_UTF8 ELSE ENC_PLAIN,
                              p1 |-> r.idx_bytes, p2 |-> r.dict_blob,
                              restore |-> TRUE, coalesced |-> coalesced] :
                        r \in {build_dict_utf8_payload(
                                   [w EXCEPT !.view_var_coalesce = <<>>], col.validity,
                                   row_count, col.offsets, coalesced)}}) :
                   coalesced \in {col.data.inline \o Flatten(col.data.chunks)}})
    ELSE IF DeltaCandidate(w, field, col, row_count)
    THEN The({[err |-> "Ok", ws |-> r.ws,
               id |-> IF r.some THEN ENC_DELTA_VARINT_I64 ELSE ENC_PLAIN,
               p1 |-> r.payload, p2 |-> <<>>, restore |-> FALSE, coalesced |-> <<>>] :
              r \in {build_delta_varint_i64_payload(w, col.values)}})
    ELSE [err |-> "Ok", ws |-> w, id |-> ENC_PLAIN, p1 |-> <<>>, p2 |-> <<>>,
          restore |-> FALSE, coalesced |-> <<>>]

\* fast_var_payloads with a length prefix that counts the inline slice only
fast_var_payloads_inline_len(field, col, row_count, sel) ==
    IF col.ty # field.ty THEN [err |-> "internal type mismatch", bytes |-> <<>>]
    ELSE IF sel.id = ENC_PLAIN
    THEN IF Len(col.offsets) # row_count + 1
         THEN [err |-> "offsets length mismatch", bytes |-> <<>>]
         ELSE [err |-> "Ok",
               bytes |-> write_u32_le((row_count + 1) * 4)
                         \o Flatten([i \in 1..Len(col.offsets) |-> write_u32_le(col.offsets[i])])
                         \o (IF col.data.kind = "Contiguous"
                             THEN write_u32_len_bytes(col.data.bytes)
                             ELSE write_u32_le(Len(col.data.inline))
                                  \o col.data.inline \o Flatten(col.data.chunks))]
    ELSE [err |-> "Ok", bytes |-> write_u32_len_bytes(sel.p1) \o write_u32_len_bytes(sel.p2)]

\* the payload part of a variable-length column of a view: chunked data goes out as
\* one length prefix, then the inline slice, then each chunk
fast_var_payloads(field, col, row_count, sel) ==
    IF col.ty # field.ty THEN [err |-> "internal type mismatch", bytes |-> <<>>]
    ELSE IF sel.id = ENC_PLAIN
    THEN IF Len(col.offsets) # row_count + 1
         THEN [err |-> "offsets length mismatch", bytes |-> <<>>]
         ELSE [err |-> "Ok",
               bytes |-> write_u32_le((row_count + 1) * 4)
                         \o Flatten([i \in 1..Len(col.offsets) |-> write_u32_le(col.offsets[i])])
                         \o (IF col.data.kind = "Contiguous"
                             THEN write_u32_len_bytes(col.data.bytes)
                             ELSE write_u32_le(VarDataView_len(col.data))
                                  \o col.data.inline \o Flatten(col.data.chunks))]
    ELSE [err |-> "Ok", bytes |-> write_u32_len_bytes(sel.p1) \o write_u32_len_bytes(sel.p2)]

\* one iteration of the column loop of encode_mathldbt_v1_fast_path_into_with_workspace
fast_encode_column(w, field, col, row_count) ==
    LET tid == write_u16_le(type_id(field.ty))
    IN IF Len(col.validity) # ceil_div_8(row_count)
       THEN [err |-> "validity length mismatch", bytes |-> tid, ws |-> w]
       ELSE The({IF sel.err # "Ok" THEN [err |-> sel.err, bytes |-> tid, ws |-> sel.ws]
                 ELSE The({[err |-> pay.err,
                            bytes |-> tid \o write_u16_le(sel.id) \o write_u16_le(0)
                                      \o write_u16_len_bytes(field.name.bytes)
                                      \o write_u32_len_bytes(col.validity) \o pay.bytes,
                            ws |-> IF pay.err = "Ok" /\ sel.restore
                                   THEN [sel.ws EXCEPT !.view_var_coalesce = sel.coalesced]
                                   ELSE sel.ws] :
                           pay \in {IF col.variant = "Var"
                                    THEN fast_var_payloads(field, col, row_count, sel)
                                    ELSE fixed_payloads(col, row_count, sel)}}) :
                 sel \in {fast_select_encoding(w, field, col, row_count)}})

RECURSIVE fast_encode_columns(_, _, _, _, _, _)
fast_encode_columns(fields, columns, row_count, i, w, acc) ==
    IF i > Len(fields) \/ i > Len(columns) THEN [err |-> "Ok", out |-> acc, ws |-> w]
    ELSE The({IF r.err # "Ok" THEN [err |-> r.err, out |-> acc \o r.bytes, ws |-> r.ws]
              ELSE fast_encode_columns(fields, columns, row_count, i + 1, r.ws,
                                       acc \o r.bytes) :
              r \in {fast_encode_column(w, fields[i], columns[i], row_count)}})

\* encode_mathldbt_v1_fast_path_into_with_workspace(view, out, ws)
encode_mathldbt_v1_fast_path_into_with_workspace(v, out0, w) ==
    LET r == view_validate(v)
    IN IF r # "Ok" THEN [err |-> r, out |-> out0, ws |-> w]
       ELSE IF Len(v.columns) = 0
       THEN [err |-> "MATHLDBT must have at least one column",
             out |-> MAGIC \o write_u16_le(VERSION) \o write_u16_le(0) \o write_u32_le(v.row_count),
             ws |-> w]
       ELSE fast_encode_columns(v.schema, v.columns, v.row_count, 1, w,
                                FrameHeader(v.row_count, Len(v.columns)))

-----------------------------------------------------------------------------
(* Decoders of the two encoded payload forms *)

\* MathldbtV1DecodeWorkspace::default()
DefaultDecodeWorkspace == [dict_offsets |-> <<>>]

RECURSIVE DeltaLoop(_, _, _, _, _, _)
\* the loop "for i in 1..row_count" of decode_delta_varint_i64_from_payload; i is 0-based
DeltaLoop(payload, row_count, i, pos, prev, values) ==
    IF i >= row_count
    THEN [err |-> IF pos # Len(payload) THEN "trailing bytes in delta payload" ELSE "Ok",
          values |-> values]
    ELSE LET r == read_u64_varint(payload, pos)
         IN IF r.err # "Ok" THEN [err |-> r.err, values |-> values]
            ELSE LET next == wrapping_add(prev, zigzag_u64_to_i64(r.val))
                 IN DeltaLoop(payload, row_count, i + 1, r.pos, next,
                              [values EXCEPT ![i + 1] = WordToLE(next)])

\* decode_delta_varint_i64_from_payload(payload, row_count, out): the result and out afterwards
decode_delta_varint_i64_from_payload(payload, row_count, values) ==
    IF row_count = 0 THEN [err |-> "Ok", values |-> values]
    ELSE IF Len(values) < row_count THEN [err |-> "output length mismatch", values |-> values]
    ELSE IF Len(payload) < 8 THEN [err |-> "delta payload truncated", values |-> values]
    ELSE LET base == Slice(payload, 0, 8)
         IN DeltaLoop(payload, row_count, 1, 8, WordFromLE(base),
                      [values EXCEPT ![1] = WordToLE(WordFromLE(base))])

\* RowIndex that reads the index of row 0 for every row
row_index_of_first_row(indices_bytes, row, index_width) ==
    IF index_width = 1 THEN indices_bytes[1]
    ELSE IF index_width = 2 THEN u16_from_le(indices_bytes, 0)
    ELSE u32_from_le(indices_bytes, 0)

\* the index of a row read from the index byte image
RowIndex(indices_bytes, row, index_width) ==
    IF index_width = 1 THEN indices_bytes[row + 1]
    ELSE IF index_width = 2 THEN u16_from_le(indices_bytes, row * 2)
    ELSE u32_from_le(indices_bytes, row * 4)

RECURSIVE DictRows(_, _, _, _, _, _, _, _, _, _)
\* the row loop of decode_dict_utf8_to_var_col
DictRows(row_count, validity, indices_bytes, index_width, dict_count, dict_offsets, dict_bytes, row, offsets, data) ==
    IF row >= row_count THEN [err |-> "Ok", offsets |-> offsets, data |-> data]
    ELSE IF ~BitSet(validity, row)
         THEN DictRows(row_count, validity, indices_bytes, index_width, dict_count,
                       dict_offsets, dict_bytes, row + 1,
                       Append(offsets, offsets[Len(offsets)]), data)
    ELSE LET idx == RowIndex(indices_bytes, row, index_width)
         IN IF idx >= dict_count
            THEN [err |-> "dict index out of bounds", offsets |-> offsets, data |-> data]
            ELSE LET start == dict_offsets[idx + 1]
                     end == dict_offsets[idx + 2]
                 IN DictRows(row_count, validity, indices_bytes, index_width, dict_count,
                             dict_offsets, dict_bytes, row + 1,
                             Append(offsets, offsets[Len(offsets)] + (end - start)),
                             data \o Slice(dict_bytes, start, end))

\* decode_dict_utf8_to_var_col without out_offsets.clear() and out_data.clear() before the
\* row loop: the rows are appended to what the target column held
decode_dict_appends_to_output(dw, row_count, validity, indices_bytes, dict_blob, out_offsets, out_data) ==
    IF row_count = 0 THEN [err |-> "Ok", dws |-> dw, offsets |-> <<0>>, data |-> <<>>]
    ELSE IF Len(dict_blob) < 5
    THEN [err |-> "dict blob truncated", dws |-> dw, offsets |-> out_offsets, data |-> out_data]
    ELSE LET index_width == dict_blob[1] IN
    IF index_width \notin {1, 2, 4}
    THEN [err |-> "invalid dict index width", dws |-> dw, offsets |-> out_offsets,
          data |-> out_data]
    ELSE LET dict_count == u32_from_le(dict_blob, 1)
             offsets_end == 5 + (dict_count + 1) * 4
         IN
    IF offsets_end > Len(dict_blob)
    THEN [err |-> "dict offsets truncated", dws |-> dw, offsets |-> out_offsets,
          data |-> out_data]
    ELSE LET dict_offsets == [i \in 1..(dict_count + 1) |-> u32_from_le(dict_blob, 5 + (i - 1) * 4)]
             dw2 == [dw EXCEPT !.dict_offsets = dict_offsets]
             dict_bytes == Slice(dict_blob, offsets_end, Len(dict_blob))
         IN
    IF dict_offsets[dict_count + 1] # Len(dict_bytes)
    THEN [err |-> "dict final offset mismatch", dws |-> dw2, offsets |-> out_offsets,
          data |-> out_data]
    ELSE IF FirstDecrease(dict_offsets, 1, 0)
    THEN [err |-> "dict offsets must be non-decreasing", dws |-> dw2, offsets |-> out_offsets,
          data |-> out_data]
    ELSE IF Len(indices_bytes) # row_count * index_width
    THEN [err |-> "indices length mismatch", dws |-> dw2, offsets |-> out_offsets,
          data |-> out_data]
    ELSE LET r == DictRows(row_count, validity, indices_bytes, index_width, dict_count,
                           dict_offsets, dict_bytes, 0,
                           IF out_offsets = <<>> THEN <<0>> ELSE out_offsets, out_data)
         IN [err |-> r.err, dws |-> dw2, offsets |-> r.offsets, data |-> r.data]

\* decode_dict_utf8_to_var_col: the result, the decode workspace, out_offsets and out_data
decode_dict_utf8_to_var_col(dw, row_count, validity, indices_bytes, dict_blob, out_offsets, out_data) ==
    IF row_count = 0 THEN [err |-> "Ok", dws |-> dw, offsets |-> <<0>>, data |-> <<>>]
    ELSE IF Len(dict_blob) < 5
    THEN [err |-> "dict blob truncated", dws |-> dw, offsets |-> out_offsets, data |-> out_data]
    ELSE LET index_width == dict_blob[1] IN
    IF index_width \notin {1, 2, 4}
    THEN [err |-> "invalid dict index width", dws |-> dw, offsets |-> out_offsets,
          data |-> out_data]
    ELSE LET dict_count == u32_from_le(dict_blob, 1)
             offsets_end == 5 + (dict_count + 1) * 4
         IN
    IF offsets_end > Len(dict_blob)
    THEN [err |-> "dict offsets truncated", dws |-> dw, offsets |-> out_offsets,
          data |-> out_data]
    ELSE LET dict_offsets == [i \in 1..(dict_count + 1) |-> u32_from_le(dict_blob, 5 + (i - 1) * 4)]
             dw2 == [dw EXCEPT !.dict_offsets = dict_offsets]
             dict_bytes == Slice(dict_blob, offsets_end, Len(dict_blob))
         IN
    IF dict_offsets[dict_count + 1] # Len(dict_bytes)
    THEN [err |-> "dict final offset mismatch", dws |-> dw2, offsets |-> out_offsets,
          data |-> out_data]
    ELSE IF FirstDecrease(dict_offsets, 1, 0)
    THEN [err |-> "dict offsets must be non-decreasing", dws |-> dw2, offsets |-> out_offsets,
          data |-> out_data]
    ELSE IF Len(indices_bytes) # row_count * index_width
    THEN [err |-> "indices length mismatch", dws |-> dw2, offsets |-> out_offsets,
          data |-> out_data]
    ELSE LET r == DictRows(row_count, validity, indices_bytes, index_width, dict_count,
                           dict_offsets, dict_bytes, 0, <<0>>, <<>>)
         IN [err |-> r.err, dws |-> dw2, offsets |-> r.offsets, data |-> r.data]

-----------------------------------------------------------------------------
(* Frame parsing shared by the allocating and the in-place decoder *)

\* take(bytes, pos, n) succeeds iff the n bytes after pos are inside the input
take_ok(bytes, pos, n) == n <= Len(bytes) - pos

Truncated == "truncated mathldbt"
SchemaErr == "decode_mathldbt_v1_into requires matching schema"

\* std::str::from_utf8 on a column name (the model's names are ASCII)
IsUtf8(bytes) == \A i \in 1..Len(bytes) : bytes[i] < 128

\* parse_header with the version compared before the magic
parse_header_version_first(bytes) ==
    LET bad(e) == [err |-> e, pos |-> 0, row_count |-> 0, col_count |-> 0]
    IN IF ~take_ok(bytes, 0, 8) THEN bad(Truncated)
       ELSE IF ~take_ok(bytes, 8, 2) THEN bad(Truncated)
       ELSE IF u16_from_le(bytes, 8) # VERSION
            THEN bad("unsupported MATHLDBT version: " \o ToString(u16_from_le(bytes, 8)))
       ELSE IF Slice(bytes, 0, 8) # MAGIC THEN bad("invalid MATHLDBT magic")
       ELSE IF ~take_ok(bytes, 10, 2) THEN bad(Truncated)
       ELSE IF ~take_ok(bytes, 12, 4) THEN bad(Truncated)
       ELSE IF ~take_ok(bytes, 16, 2) THEN bad(Truncated)
       ELSE IF u16_from_le(bytes, 16) = 0 THEN bad("MATHLDBT must have at least one column")
       ELSE IF ~take_ok(bytes, 18, 2) THEN bad(Truncated)
       ELSE IF ~take_ok(bytes, 20, u16_from_le(bytes, 18)) THEN bad(Truncated)
       ELSE [err |-> "Ok", pos |-> 20 + u16_from_le(bytes, 18),
             row_count |-> u32_from_le(bytes, 12), col_count |-> u16_from_le(bytes, 16)]

\* magic, version, flags, row count, column count, schema-id
parse_header(bytes) ==
    LET bad(e) == [err |-> e, pos |-> 0, row_count |-> 0, col_count |-> 0]
    IN IF ~take_ok(bytes, 0, 8) THEN bad(Truncated)
       ELSE IF Slice(bytes, 0, 8) # MAGIC THEN bad("invalid MATHLDBT magic")
       ELSE IF ~take_ok(bytes, 8, 2) THEN bad(Truncated)
       ELSE IF u16_from_le(bytes, 8) # VERSION
            THEN bad("unsupported MATHLDBT version: " \o ToString(u16_from_le(bytes, 8)))
       ELSE IF ~take_ok(bytes, 10, 2) THEN bad(Truncated)
       ELSE IF ~take_ok(bytes, 12, 4) THEN bad(Truncated)
       ELSE IF ~take_ok(bytes, 16, 2) THEN bad(Truncated)
       ELSE IF u16_from_le(bytes, 16) = 0 THEN bad("MATHLDBT must have at least one column")
       ELSE IF ~take_ok(bytes, 18, 2) THEN bad(Truncated)
       ELSE IF ~take_ok(bytes, 20, u16_from_le(bytes, 18)) THEN bad(Truncated)
       ELSE [err |-> "Ok", pos |-> 20 + u16_from_le(bytes, 18),
             row_count |-> u32_from_le(bytes, 12), col_count |-> u16_from_le(bytes, 16)]

\* parse_col_head of a strict mode that refuses column flags other than 0
parse_col_head_strict_flags(bytes, pos) ==
    LET bad(e) == [err |-> e, pos |-> pos, ty |-> "unknown", enc |-> 0, name |-> NoName]
    IN IF ~take_ok(bytes, pos, 2) THEN bad(Truncated)
       ELSE IF type_from_id(u16_from_le(bytes, pos)) = "unknown"
            THEN bad("unknown column type id: " \o ToString(u16_from_le(bytes, pos)))
       ELSE IF ~take_ok(bytes, pos + 2, 2) THEN bad(Truncated)
       ELSE IF ~take_ok(bytes, pos + 4, 2) THEN bad(Truncated)
       ELSE IF u16_from_le(bytes, pos + 4) # 0 THEN bad("unsupported column flags")
       ELSE IF ~take_ok(bytes, pos + 6, 2) THEN bad(Truncated)
       ELSE LET name_len == u16_from_le(bytes, pos + 6)
            IN IF ~take_ok(bytes, pos + 8, name_len) THEN bad(Truncated)
               ELSE IF name_len # 0 /\ ~IsUtf8(Slice(bytes, pos + 8, pos + 8 + name_len))
                    THEN bad("invalid UTF-8 column name")
               ELSE [err |-> "Ok", pos |-> pos + 8 + name_len,
                     ty |-> type_from_id(u16_from_le(bytes, pos)),
                     enc |-> u16_from_le(bytes, pos + 2),
                     name |-> IF name_len = 0 THEN NoName
                              ELSE SomeName(Slice(bytes, pos + 8, pos + 8 + name_len))]


\* type id, encoding id, column flags, name of one column descriptor
parse_col_head(bytes, pos) ==
    LET bad(e) == [err |-> e, pos |-> pos, ty |-> "unknown", enc |-> 0, name |-> NoName]
    IN IF ~take_ok(bytes, pos, 2) THEN bad(Truncated)
       ELSE IF type_from_id(u16_from_le(bytes, pos)) = "unknown"
            THEN bad("unknown column type id: " \o ToString(u16_from_le(bytes, pos)))
       ELSE IF ~take_ok(bytes, pos + 2, 2) THEN bad(Truncated)
       ELSE IF ~take_ok(bytes, pos + 4, 2) THEN bad(Truncated)
       ELSE IF ~take_ok(bytes, pos + 6, 2) THEN bad(Truncated)
       ELSE LET name_len == u16_from_le(bytes, pos + 6)
            IN IF ~take_ok(bytes, pos + 8, name_len) THEN bad(Truncated)
               ELSE IF name_len # 0 /\ ~IsUtf8(Slice(bytes, pos + 8, pos + 8 + name_len))
                    THEN bad("invalid UTF-8 column name")
               ELSE [err |-> "Ok", pos |-> pos + 8 + name_len,
                     ty |-> type_from_id(u16_from_le(bytes, pos)),
                     enc |-> u16_from_le(bytes, pos + 2),
                     name |-> IF name_len = 0 THEN NoName
                              ELSE SomeName(Slice(bytes, pos + 8, pos + 8 + name_len))]

\* validity, payload1, payload2 of one column descriptor
parse_col_body(bytes, pos, expected_validity) ==
    LET bad(e) == [err |-> e, pos |-> pos, validity |-> <<>>, p1 |-> <<>>, p2 |-> <<>>]
    IN IF ~take_ok(bytes, pos, 4) THEN bad(Truncated)
       ELSE LET validity_len == u32_from_le(bytes, pos)
                p1_at == pos + 4 + validity_len
            IN IF validity_len # expected_validity THEN bad("validity length mismatch")
               ELSE IF ~take_ok(bytes, pos + 4, validity_len) THEN bad(Truncated)
               ELSE IF ~take_ok(bytes, p1_at, 4) THEN bad(Truncated)
               ELSE LET p1_len == u32_from_le(bytes, p1_at)
                        p2_at == p1_at + 4 + p1_len
                    IN IF ~take_ok(bytes, p1_at + 4, p1_len) THEN bad(Truncated)
                       ELSE IF ~take_ok(bytes, p2_at, 4) THEN bad(Truncated)
                       ELSE LET p2_len == u32_from_le(bytes, p2_at)
                            IN IF ~take_ok(bytes, p2_at + 4, p2_len) THEN bad(Truncated)
                               ELSE [err |-> "Ok", pos |-> p2_at + 4 + p2_len,
                                     validity |-> Slice(bytes, pos + 4, p1_at),
                                     p1 |-> Slice(bytes, p1_at + 4, p2_at),
                                     p2 |-> Slice(bytes, p2_at + 4, p2_at + 4 + p2_len)]

\* u32 offsets read from their little-endian image
OffsetsFromLE(p1, n) == [i \in 1..n |-> u32_from_le(p1, (i - 1) * 4)]

\* the values vector read from payload1: copied for PlainLe, byte-swapped per element
\* for PgBeFixed
FixedValues(p1, size, enc) ==
    IF enc = PgBeFixed THEN [i \in 1..(Len(p1) \div size) |-> Reverse(Chunked(p1, size)[i])]
    ELSE Chunked(p1, size)

ZeroValues(n, size) == [i \in 1..n |-> [j \in 1..size |-> 0]]

\* fixed_encoding_check that lets encoding id 3 through for every fixed-width type
fixed_encoding_check_any_delta(ty, enc, p2) ==
    IF enc \notin {ENC_DELTA_VARINT_I64, ENC_PLAIN, PgBeFixed}
    THEN "invalid encoding for fixed column"
    ELSE IF Len(p2) # 0 THEN "fixed-width payload_2 must be empty"
    ELSE "Ok"

\* why the decoders refuse the encoding id of a fixed-width column, or "Ok"
fixed_encoding_check(ty, enc, p2) ==
    IF enc = ENC_DELTA_VARINT_I64 /\ ty \notin {"I64", "TimestampTzMicros"}
    THEN "invalid encoding for fixed column"
    ELSE IF enc \notin {ENC_DELTA_VARINT_I64, ENC_PLAIN, PgBeFixed}
    THEN "invalid encoding for fixed column"
    ELSE IF Len(p2) # 0 THEN "fixed-width payload_2 must be empty"
    ELSE "Ok"

-----------------------------------------------------------------------------
(* The allocating decoder *)

\* one column of decode_mathldbt_v1_with_workspace, from its parsed descriptor
decode_column(dw, ty, enc, validity, p1, p2, row_count) ==
    LET bad(e) == [err |-> e, dws |-> dw, col |-> <<>>]
    IN IF ty \in VarTypes
       THEN IF enc = ENC_PLAIN
            THEN IF Len(p1) # (row_count + 1) * 4 THEN bad("offsets length mismatch")
                 ELSE LET offsets == OffsetsFromLE(p1, row_count + 1)
                      IN IF FirstDecrease(offsets, 1, 0) THEN bad("offsets must be non-decreasing")
                         ELSE IF offsets[Len(offsets)] # Len(p2) THEN bad("final offset mismatch")
                         ELSE [err |-> "Ok", dws |-> dw,
                               col |-> [variant |-> "Var", ty |-> ty, validity |-> validity,
                                        offsets |-> offsets, data |-> p2]]
            ELSE IF enc = ENC_DICT_UTF8
            THEN IF ty = "Bytes" THEN bad("DictUtf8 is not supported for Bytes")
                 ELSE LET d == decode_dict_utf8_to_var_col(dw, row_count, validity, p1, p2,
                                                           <<>>, <<>>)
                      IN IF d.err # "Ok" THEN [err |-> d.err, dws |-> d.dws, col |-> <<>>]
                         ELSE [err |-> "Ok", dws |-> d.dws,
                               col |-> [variant |-> "Var", ty |-> ty, validity |-> validity,
                                        offsets |-> d.offsets, data |-> d.data]]
            ELSE bad("invalid encoding for varlen column")
       ELSE IF fixed_encoding_check(ty, enc, p2) # "Ok" THEN bad(fixed_encoding_check(ty, enc, p2))
       ELSE IF ty \in {"I64", "TimestampTzMicros"} /\ enc = ENC_DELTA_VARINT_I64
       THEN LET d == decode_delta_varint_i64_from_payload(p1, row_count,
                                                          ZeroValues(row_count, 8))
            IN IF d.err # "Ok" THEN bad(d.err)
               ELSE [err |-> "Ok", dws |-> dw,
                     col |-> [variant |-> FixedVariant(ty), validity |-> validity,
                              values |-> d.values]]
       ELSE IF Len(p1) # row_count * elem_size(ty) THEN bad("values length mismatch")
       ELSE [err |-> "Ok", dws |-> dw,
             col |-> [variant |-> FixedVariant(ty), validity |-> validity,
                      values |-> IF ty \in {"Bool", "Uuid"} THEN Chunked(p1, elem_size(ty))
                                 ELSE FixedValues(p1, elem_size(ty), enc)]]

RECURSIVE decode_columns_checks_end(_, _, _, _, _, _, _, _)
\* the column loop of a strict decoder that refuses bytes after the last column
decode_columns_checks_end(bytes, pos, row_count, col_count, i, dw, fields, columns) ==
    IF i > col_count
    THEN [err |-> IF pos = Len(bytes) THEN "Ok" ELSE "trailing bytes after the last column",
          dws |-> dw, fields |-> fields, columns |-> columns]
    ELSE LET bad(e, w) == [err |-> e, dws |-> w, fields |-> fields, columns |-> columns]
         IN The({IF h.err # "Ok" THEN bad(h.err, dw)
                 ELSE The({IF b.err # "Ok" THEN bad(b.err, dw)
                           ELSE The({IF c.err # "Ok" THEN bad(c.err, c.dws)
                                     ELSE decode_columns_checks_end(
                                              bytes, b.pos, row_count, col_count, i + 1, c.dws,
                                              Append(fields, [name |-> h.name, ty |-> h.ty]),
                                              Append(columns, c.col)) :
                                     c \in {decode_column(dw, h.ty, h.enc, b.validity, b.p1,
                                                          b.p2, row_count)}}) :
                           b \in {parse_col_body(bytes, h.pos, ceil_div_8(row_count))}}) :
                 h \in {parse_col_head(bytes, pos)}})

RECURSIVE decode_columns(_, _, _, _, _, _, _, _)
\* the column loop of decode_mathldbt_v1_with_workspace
decode_columns(bytes, pos, row_count, col_count, i, dw, fields, columns) ==
    IF i > col_count
    THEN [err |-> "Ok", dws |-> dw, fields |-> fields, columns |-> columns]
    ELSE LET bad(e, w) == [err |-> e, dws |-> w, fields |-> fields, columns |-> columns]
         IN The({IF h.err # "Ok" THEN bad(h.err, dw)
                 ELSE The({IF b.err # "Ok" THEN bad(b.err, dw)
                           ELSE The({IF c.err # "Ok" THEN bad(c.err, c.dws)
                                     ELSE decode_columns(
                                              bytes, b.pos, row_count, col_count, i + 1, c.dws,
                                              Append(fields, [name |-> h.name, ty |-> h.ty]),
                                              Append(columns, c.col)) :
                                     c \in {decode_column(dw, h.ty, h.enc, b.validity, b.p1,
                                                          b.p2, row_count)}}) :
                           b \in {parse_col_body(bytes, h.pos, ceil_div_8(row_count))}}) :
                 h \in {parse_col_head(bytes, pos)}})

\* decode a frame into a fresh batch; the batch is built by ColumnarBatch::new, which
\* validates it
decode_mathldbt_v1_with_workspace(bytes, dw) ==
    LET h == parse_header(bytes)
    IN IF h.err # "Ok" THEN [err |-> h.err, dws |-> dw, batch |-> <<>>]
       ELSE The({IF c.err # "Ok" THEN [err |-> c.err, dws |-> c.dws, batch |-> <<>>]
                 ELSE The({The({[err |-> v, dws |-> c.dws,
                                 batch |-> IF v # "Ok" THEN <<>> ELSE b] :
                                v \in {validate(b)}}) :
                           b \in {[schema |-> c.fields, row_count |-> h.row_count,
                                   columns |-> c.columns]}}) :
                 c \in {decode_columns(bytes, h.pos, h.row_count, h.col_count, 1, dw,
                                       <<>>, <<>>)}})

-----------------------------------------------------------------------------
(* The in-place decoder: it writes into the target column by column, so a failure
   leaves whatever was written before it *)

\* one column of decode_mathldbt_v1_into_with_workspace; col is the target column after
\* the call, on success and on failure
decode_column_into(dw, out_col, ty, enc, validity_src, p1, p2, row_count) ==
    LET ret(e, w, c) == [err |-> e, dws |-> w, col |-> c]
        v_col == [out_col EXCEPT !.validity = validity_src]
    IN IF ty \in VarTypes
       THEN IF out_col.variant # "Var" THEN ret(SchemaErr, dw, out_col)
            ELSE IF out_col.ty # ty THEN ret(SchemaErr, dw, out_col)
            ELSE IF enc = ENC_PLAIN
            THEN IF Len(p1) # (row_count + 1) * 4 THEN ret("offsets length mismatch", dw, v_col)
                 ELSE LET offsets == OffsetsFromLE(p1, row_count + 1)
                          o_col == [v_col EXCEPT !.offsets = offsets]
                      IN IF FirstDecrease(offsets, 1, 0)
                         THEN ret("offsets must be non-decreasing", dw, o_col)
                         ELSE IF offsets[Len(offsets)] # Len(p2)
                         THEN ret("final offset mismatch", dw, o_col)
                         ELSE ret("Ok", dw, [o_col EXCEPT !.data = p2])
            ELSE IF enc = ENC_DICT_UTF8
            THEN IF ty = "Bytes" THEN ret("DictUtf8 is not supported for Bytes", dw, v_col)
                 ELSE LET d == decode_dict_utf8_to_var_col(dw, row_count, validity_src, p1, p2,
                                                           out_col.offsets, out_col.data)
                      IN ret(d.err, d.dws, [v_col EXCEPT !.offsets = d.offsets, !.data = d.data])
            ELSE ret("invalid encoding for varlen column", dw, v_col)
       ELSE IF fixed_encoding_check(ty, enc, p2) # "Ok"
       THEN ret(fixed_encoding_check(ty, enc, p2), dw, out_col)
       ELSE IF out_col.variant # FixedVariant(ty) THEN ret(SchemaErr, dw, out_col)
       ELSE IF ty \in {"I64", "TimestampTzMicros"}
       THEN LET z_col == [v_col EXCEPT !.values = ZeroValues(row_count, 8)]
            IN IF enc = ENC_DELTA_VARINT_I64
               THEN LET d == decode_delta_varint_i64_from_payload(p1, row_count, z_col.values)
                    IN ret(d.err, dw, [z_col EXCEPT !.values = d.values])
               ELSE IF Len(p1) # row_count * 8 THEN ret("values length mismatch", dw, z_col)
               ELSE ret("Ok", dw, [z_col EXCEPT !.values = FixedValues(p1, 8, enc)])
       ELSE IF Len(p1) # row_count * elem_size(ty) THEN ret("values length mismatch", dw, v_col)
       ELSE ret("Ok", dw,
                [v_col EXCEPT !.values = IF ty \in {"Bool", "Uuid"}
                                         THEN Chunked(p1, elem_size(ty))
                                         ELSE FixedValues(p1, elem_size(ty), enc)])

RECURSIVE decode_columns_into(_, _, _, _, _, _, _)
\* the column loop of decode_mathldbt_v1_into_with_workspace over the target tgt
decode_columns_into(bytes, pos, row_count, col_count, i, dw, tgt) ==
    IF i > col_count THEN [err |-> "Ok", dws |-> dw, out |-> tgt]
    ELSE LET ret(e, w, t) == [err |-> e, dws |-> w, out |-> t]
         IN The({IF h.err # "Ok" THEN ret(h.err, dw, tgt)
                 ELSE IF tgt.schema[i].ty # h.ty THEN ret(SchemaErr, dw, tgt)
                 ELSE IF tgt.schema[i].name # h.name THEN ret(SchemaErr, dw, tgt)
                 ELSE The({IF b.err # "Ok" THEN ret(b.err, dw, tgt)
                           ELSE The({IF c.err # "Ok"
                                     THEN ret(c.err, c.dws, [tgt EXCEPT !.columns[i] = c.col])
                                     ELSE decode_columns_into(
                                              bytes, b.pos, row_count, col_count, i + 1, c.dws,
                                              [tgt EXCEPT !.columns[i] = c.col]) :
                                     c \in {decode_column_into(dw, tgt.columns[i], h.ty, h.enc,
                                                               b.validity, b.p1, b.p2,
                                                               row_count)}}) :
                           b \in {parse_col_body(bytes, h.pos, ceil_div_8(row_count))}}) :
                 h \in {parse_col_head(bytes, pos)}})

\* the in-place decoder refusing a target only when it has fewer columns than the frame
decode_into_accepts_wider_target(bytes, tgt, dw) ==
    LET h == parse_header(bytes)
    IN IF h.err # "Ok" THEN [err |-> h.err, dws |-> dw, out |-> tgt]
       ELSE IF h.col_count > Len(tgt.schema) THEN [err |-> SchemaErr, dws |-> dw, out |-> tgt]
       ELSE IF h.col_count > Len(tgt.columns) THEN [err |-> SchemaErr, dws |-> dw, out |-> tgt]
       ELSE The({IF c.err # "Ok" THEN c
                 ELSE [err |-> validate([c.out EXCEPT !.row_count = h.row_count]),
                       dws |-> c.dws, out |-> [c.out EXCEPT !.row_count = h.row_count]] :
                 c \in {decode_columns_into(bytes, h.pos, h.row_count, h.col_count, 1, dw,
                                            tgt)}})

\* decode a frame into an existing batch of the same schema; out is the target after
\* the call
decode_mathldbt_v1_into_with_workspace(bytes, tgt, dw) ==
    LET h == parse_header(bytes)
    IN IF h.err # "Ok" THEN [err |-> h.err, dws |-> dw, out |-> tgt]
       ELSE IF h.col_count # Len(tgt.schema) THEN [err |-> SchemaErr, dws |-> dw, out |-> tgt]
       ELSE IF h.col_count # Len(tgt.columns) THEN [err |-> SchemaErr, dws |-> dw, out |-> tgt]
       ELSE The({IF c.err # "Ok" THEN c
                 ELSE [err |-> validate([c.out EXCEPT !.row_count = h.row_count]),
                       dws |-> c.dws, out |-> [c.out EXCEPT !.row_count = h.row_count]] :
                 c \in {decode_columns_into(bytes, h.pos, h.row_count, h.col_count, 1, dw,
                                            tgt)}})

-----------------------------------------------------------------------------
(* The compressed wrapper.  The zstd and flate2 crates are outside the repository: a
   compressed image is modelled as the scheme's magic number followed by the stored
   plain bytes, and an input without the magic number is a corrupt stream *)

CompressionNone == [scheme |-> "None", level |-> 0]
Zstd(level) == [scheme |-> "Zstd", level |-> level]
Gzip(level) == [scheme |-> "Gzip", level |-> level]

ZstdMagic == <<40, 181, 47, 253>>
GzipMagic == <<31, 139>>
BoundErr == "decompressed payload exceeds max_uncompressed_len"

\* MathldbtV1CompressedEncodeWorkspace::default() / MathldbtV1CompressedDecodeWorkspace::default()
DefaultCompressedWorkspace == [plain |-> <<>>]

\* what a decompressor reads out of the input
StoredStream(bytes, magic) ==
    IF Len(bytes) >= Len(magic) /\ Slice(bytes, 0, Len(magic)) = magic
    THEN [ok |-> TRUE, bytes |-> Slice(bytes, Len(magic), Len(bytes))]
    ELSE [ok |-> FALSE, bytes |-> <<>>]

compress_none_into(out0, plain) == [err |-> "Ok", out |-> plain]

compress_zstd_into(out0, plain, level) ==
    IF level < -7 \/ level > 22 THEN [err |-> "invalid zstd level", out |-> out0]
    ELSE [err |-> "Ok", out |-> ZstdMagic \o plain]

compress_gzip_into(out0, plain, level) ==
    IF level > 9 THEN [err |-> "invalid gzip level", out |-> out0]
    ELSE [err |-> "Ok", out |-> GzipMagic \o plain]

\* a u64 is kept here as its 8 little-endian bytes
U64Zero == <<0, 0, 0, 0, 0, 0, 0, 0>>
U64One == <<1, 0, 0, 0, 0, 0, 0, 0>>
U64Max == <<255, 255, 255, 255, 255, 255, 255, 255>>

\* n as u64, for a length n below 2^31
usize_as_u64(n) == write_u32_le(n) \o <<0, 0, 0, 0>>

RECURSIVE ULeFrom(_, _, _)
\* a <= b on the bytes i, i-1, ..., 1
ULeFrom(a, b, i) ==
    IF i = 0 THEN TRUE
    ELSE IF a[i] # b[i] THEN a[i] < b[i]
    ELSE ULeFrom(a, b, i - 1)

\* a <= b, both u64
ULe(a, b) == ULeFrom(a, b, 8)

\* the first n bytes a reader gives, n a u64: Read::take(n)
take_limit(bytes, n) ==
    IF ULe(usize_as_u64(Len(bytes)), n) THEN bytes ELSE Slice(bytes, 0, u32_from_le(n, 0))

PanicAddOverflow == "panic: attempt to add with overflow"

\* read a decompressor to its end, giving up after max_uncompressed_len + 1 bytes.  The
\* bound is a u64; at u64::MAX the sum (max_uncompressed_len as u64) + 1 overflows,
\* which panics in a build with overflow checks and wraps to 0 in one without: the
\* outcomes of every build are returned
decode_with_max_bound(stream, max_uncompressed_len, out0) ==
    IF max_uncompressed_len = U64Zero
    THEN IF ~stream.ok THEN {[err |-> "corrupt stream", out |-> <<>>]}
         ELSE IF stream.bytes = <<>> THEN {[err |-> "Ok", out |-> <<>>]}
         ELSE {[err |-> BoundErr, out |-> <<>>]}
    ELSE {IF lim.panic THEN [err |-> PanicAddOverflow, out |-> <<>>]
          ELSE IF ~stream.ok THEN [err |-> "corrupt stream", out |-> <<>>]
          ELSE LET limited == take_limit(stream.bytes, lim.limit)
               IN IF ~ULe(usize_as_u64(Len(limited)), max_uncompressed_len)
                  THEN [err |-> BoundErr, out |-> limited]
                  ELSE [err |-> "Ok", out |-> limited] :
          lim \in IF max_uncompressed_len = U64Max
                  THEN {[panic |-> TRUE, limit |-> U64Zero],
                        [panic |-> FALSE, limit |-> U64Zero]}
                  ELSE {[panic |-> FALSE,
                         limit |-> AddBytes(max_uncompressed_len, U64One, 1, 0, <<>>)]}}

\* a frame with a recorded content size is checked against the bound before the
\* staging buffer is touched; anything else goes through the streaming reader (one
\* outcome for a bound below 2^31)
decompress_zstd_into(bytes, max_uncompressed_len, out0) ==
    LET stream == StoredStream(bytes, ZstdMagic)
    IN IF stream.ok
       THEN IF Len(stream.bytes) > max_uncompressed_len THEN [err |-> BoundErr, out |-> out0]
            ELSE [err |-> "Ok", out |-> stream.bytes]
       ELSE The(decode_with_max_bound(stream, usize_as_u64(max_uncompressed_len), out0))

decompress_gzip_into(bytes, max_uncompressed_len, out0) ==
    The(decode_with_max_bound(StoredStream(bytes, GzipMagic),
                              usize_as_u64(max_uncompressed_len), out0))

\* encode into the staging buffer ws.plain, then wrap it into out
encode_mathldbt_v1_compressed_into_with_workspace(b, out0, c, codec_ws, cw) ==
    The({IF e.err # "Ok"
         THEN [err |-> e.err, out |-> out0, ws |-> e.ws, cws |-> [cw EXCEPT !.plain = e.out]]
         ELSE The({[err |-> z.err, out |-> z.out, ws |-> e.ws,
                    cws |-> [cw EXCEPT !.plain = e.out]] :
                   z \in {IF c.scheme = "None" THEN compress_none_into(out0, e.out)
                          ELSE IF c.scheme = "Zstd"
                          THEN compress_zstd_into(out0, e.out, c.level)
                          ELSE compress_gzip_into(out0, e.out, c.level)}}) :
         e \in {encode_mathldbt_v1_into_with_workspace(b, <<>>, codec_ws)}})

\* decode_mathldbt_v1_compressed_with_workspace with the zero-bound arm ahead of the
\* None arm of the match
decode_compressed_bound_first(bytes, c, max_uncompressed_len, codec_ws, cw) ==
    IF max_uncompressed_len = 0
    THEN [err |-> BoundErr, dws |-> codec_ws, cws |-> cw, batch |-> <<>>]
    ELSE IF c.scheme = "None"
    THEN The({[err |-> d.err, dws |-> d.dws, cws |-> cw, batch |-> d.batch] :
              d \in {decode_mathldbt_v1_with_workspace(bytes, codec_ws)}})
    ELSE The({IF z.err # "Ok"
              THEN [err |-> z.err, dws |-> codec_ws, cws |-> [cw EXCEPT !.plain = z.out],
                    batch |-> <<>>]
              ELSE The({[err |-> d.err, dws |-> d.dws, cws |-> [cw EXCEPT !.plain = z.out],
                         batch |-> d.batch] :
                        d \in {decode_mathldbt_v1_with_workspace(z.out, codec_ws)}}) :
              z \in {IF c.scheme = "Zstd"
                     THEN decompress_zstd_into(bytes, max_uncompressed_len, cw.plain)
                     ELSE decompress_gzip_into(bytes, max_uncompressed_len, cw.plain)}})

\* decode_mathldbt_v1_compressed_into_with_workspace without the zero-bound arms, the
\* bound left to the decompressors
decode_compressed_into_unguarded(bytes, c, max_uncompressed_len, tgt, codec_ws, cw) ==
    IF c.scheme = "None"
    THEN The({[err |-> d.err, dws |-> d.dws, cws |-> cw, out |-> d.out] :
              d \in {decode_mathldbt_v1_into_with_workspace(bytes, tgt, codec_ws)}})
    ELSE The({IF z.err # "Ok"
              THEN [err |-> z.err, dws |-> codec_ws, cws |-> [cw EXCEPT !.plain = z.out],
                    out |-> tgt]
              ELSE The({[err |-> d.err, dws |-> d.dws, cws |-> [cw EXCEPT !.plain = z.out],
                         out |-> d.out] :
                        d \in {decode_mathldbt_v1_into_with_workspace(z.out, tgt, codec_ws)}}) :
              z \in {IF c.scheme = "Zstd"
                     THEN decompress_zstd_into(bytes, max_uncompressed_len, cw.plain)
                     ELSE decompress_gzip_into(bytes, max_uncompressed_len, cw.plain)}})

decode_mathldbt_v1_compressed_with_workspace(bytes, c, max_uncompressed_len, codec_ws, cw) ==
    IF c.scheme = "None"
    THEN The({[err |-> d.err, dws |-> d.dws, cws |-> cw, batch |-> d.batch] :
              d \in {decode_mathldbt_v1_with_workspace(bytes, codec_ws)}})
    ELSE IF max_uncompressed_len = 0
    THEN [err |-> BoundErr, dws |-> codec_ws, cws |-> cw, batch |-> <<>>]
    ELSE The({IF z.err # "Ok"
              THEN [err |-> z.err, dws |-> codec_ws, cws |-> [cw EXCEPT !.plain = z.out],
                    batch |-> <<>>]
              ELSE The({[err |-> d.err, dws |-> d.dws, cws |-> [cw EXCEPT !.plain = z.out],
                         batch |-> d.batch] :
                        d \in {decode_mathldbt_v1_with_workspace(z.out, codec_ws)}}) :
              z \in {IF c.scheme = "Zstd"
                     THEN decompress_zstd_into(bytes, max_uncompressed_len, cw.plain)
                     ELSE decompress_gzip_into(bytes, max_uncompressed_len, cw.plain)}})

decode_mathldbt_v1_compressed_into_with_workspace(bytes, c, max_uncompressed_len, tgt, codec_ws, cw) ==
    IF c.scheme = "None"
    THEN The({[err |-> d.err, dws |-> d.dws, cws |-> cw, out |-> d.out] :
              d \in {decode_mathldbt_v1_into_with_workspace(bytes, tgt, codec_ws)}})
    ELSE IF max_uncompressed_len = 0
    THEN [err |-> BoundErr, dws |-> codec_ws, cws |-> cw, out |-> tgt]
    ELSE The({IF z.err # "Ok"
              THEN [err |-> z.err, dws |-> codec_ws, cws |-> [cw EXCEPT !.plain = z.out],
                    out |-> tgt]
              ELSE The({[err |-> d.err, dws |-> d.dws, cws |-> [cw EXCEPT !.plain = z.out],
                         out |-> d.out] :
                        d \in {decode_mathldbt_v1_into_with_workspace(z.out, tgt, codec_ws)}}) :
              z \in {IF c.scheme = "Zstd"
                     THEN decompress_zstd_into(bytes, max_uncompressed_len, cw.plain)
                     ELSE decompress_gzip_into(bytes, max_uncompressed_len, cw.plain)}})

-----------------------------------------------------------------------------
(* Workspace setters and the constructors used to build inputs *)

set_enable_dict_utf8(w, enabled) == [w EXCEPT !.enable_dict_utf8 = enabled]
set_enable_delta_varint_i64(w, enabled) == [w EXCEPT !.enable_delta_varint_i64 = enabled]

\* a workspace with no history and the flags of w
FreshWorkspace(w) ==
    set_enable_delta_varint_i64(set_enable_dict_utf8(DefaultEncodeWorkspace, w.enable_dict_utf8),
                                w.enable_delta_varint_i64)

\* ColumnData::new_all_invalid
new_all_invalid(ty, row_count) ==
    IF ty \in VarTypes
    THEN [variant |-> "Var", ty |-> ty, validity |-> [i \in 1..ceil_div_8(row_count) |-> 0],
          offsets |-> [i \in 1..(row_count + 1) |-> 0], data |-> <<>>]
    ELSE [variant |-> FixedVariant(ty), validity |-> [i \in 1..ceil_div_8(row_count) |-> 0],
          values |-> ZeroValues(row_count, elem_size(ty))]

\* a target batch of the given schema with every row invalid
AllInvalidBatch(schema, row_count) ==
    [schema |-> schema, row_count |-> row_count,
     columns |-> [i \in 1..Len(schema) |-> new_all_invalid(schema[i].ty, row_count)]]

-----------------------------------------------------------------------------
(* Input batches.  Every value of a column is drawn from a small set that holds the
   interesting cases: i64 sequences that rise, fall and wrap, strings that repeat,
   validity bitmaps with invalid rows and with set bits above the row count *)

I64Zero == <<0, 0, 0, 0, 0, 0, 0, 0>>
I64One == <<1, 0, 0, 0, 0, 0, 0, 0>>
I64Min == <<0, 0, 0, 0, 0, 0, 0, 128>>
I64Big == <<0, 0, 0, 0, 0, 0, 64, 0>>

ElemValues(ty) ==
    CASE ty = "Bool" -> {<<0>>, <<1>>}
      [] ty = "I16" -> {<<1, 2>>}
      [] ty = "I32" -> {<<1, 2, 3, 4>>}
      [] ty = "I64" -> {I64Zero, I64One, I64Min, I64Big}
      [] ty = "F32" -> {<<0, 0, 128, 63>>}
      [] ty = "F64" -> {<<1, 2, 3, 4, 5, 6, 7, 8>>}
      [] ty = "Uuid" -> {[j \in 1..16 |-> j]}
      [] ty = "TimestampTzMicros" -> {I64Zero, I64One}

AllValid(n) == IF n = 0 THEN <<>> ELSE <<Pow2(n) - 1>>

\* all rows valid, no row valid, row 0 invalid, all valid with the unused high bits set
ValiditySet(n) == IF n = 0 THEN {<<>>} ELSE {AllValid(n), <<0>>, <<Pow2(n) - 2>>, <<255>>}

FixedColumns(ty, n) ==
    {[variant |-> FixedVariant(ty), validity |-> v, values |-> vs] :
        v \in ValiditySet(n), vs \in [1..n -> ElemValues(ty)]}

\* offsets arrays of n rows over len data bytes
OffsetsSet(n, len) ==
    {o \in [1..(n + 1) -> 0..len] :
        o[1] = 0 /\ o[n + 1] = len /\ \A i \in 1..n : o[i] <= o[i + 1]}

VarColumns(ty, n, alphabet, maxlen, vset) ==
    UNION {{[variant |-> "Var", ty |-> ty, validity |-> v, offsets |-> o, data |-> d] :
                v \in vset, o \in OffsetsSet(n, len), d \in [1..len -> alphabet]} :
           len \in 0..maxlen}

\* every column of n rows the model feeds to the codec; the last set holds columns
\* built as Var with a fixed-width type, which batch validation lets through
Columns(n) ==
    UNION {FixedColumns(ty, n) : ty \in ColumnarType \ VarTypes}
    \cup VarColumns("Utf8", n, {97, 98}, MaxData, ValiditySet(n))
    \cup VarColumns("JsonbText", n, {97}, MaxData, ValiditySet(n))
    \cup VarColumns("Bytes", n, {97}, MaxData, ValiditySet(n))
    \cup VarColumns("I64", n, {97}, 1, {AllValid(n)})

\* the columns put under a name and paired into two-column batches
CoreColumns(n) ==
    {c \in Columns(n) :
        /\ c.validity = AllValid(n)
        /\ \/ c.variant = "FixedI64" /\ \A i \in 1..n : c.values[i] \in {I64Zero, I64One}
           \/ c.variant = "Var" /\ c.ty = "Utf8" /\ c.offsets = [i \in 1..(n + 1) |-> i - 1]}

\* the columns paired into two-column batches: a falling and a constant i64 sequence,
\* a string column of one repeated byte and one of alternating bytes
PairColumns(n) ==
    {c \in CoreColumns(n) :
        \/ c.variant = "FixedI64"
           /\ c.values \in {[i \in 1..n |-> I64One],
                            [i \in 1..n |-> IF i = 1 THEN I64One ELSE I64Zero]}
        \/ c.variant = "Var"
           /\ c.data \in {[i \in 1..n |-> 97], [i \in 1..n |-> IF i % 2 = 1 THEN 97 ELSE 98]}}

NameSet == {NoName, SomeName(<<>>), SomeName(<<110>>)}

OneColumn(name, col, n) ==
    [schema |-> <<[name |-> name, ty |-> ColTy(col)]>>, row_count |-> n, columns |-> <<col>>]

TwoColumns(c1, c2, n) ==
    [schema |-> <<[name |-> NoName, ty |-> ColTy(c1)], [name |-> SomeName(<<110>>),
                                                          ty |-> ColTy(c2)]>>,
     row_count |-> n, columns |-> <<c1, c2>>]

CandidateBatches ==
    UNION {{OneColumn(NoName, c, n) : c \in Columns(n)} : n \in 0..MaxRows}
    \cup {OneColumn(nm, c, MaxRows) : nm \in NameSet, c \in CoreColumns(MaxRows)}
    \cup {TwoColumns(c1, c2, MaxRows) : c1 \in PairColumns(MaxRows), c2 \in PairColumns(MaxRows)}

\* the batches ColumnarBatch::new accepts
ValidBatches == {b \in CandidateBatches : validate(b) = "Ok"}

\* the ways a borrowed view can present the bytes of a variable-length column: in one
\* slice; as an inline slice of no byte, one byte or every byte followed by one chunk;
\* as one inline byte followed by a chunk of one byte and a chunk of the rest
DataViews(data) ==
    {Contiguous(data)}
    \cup {Chunks(Slice(data, 0, k), <<Slice(data, k, Len(data))>>) :
            k \in {0, 1, Len(data)} \cap (0..Len(data))}
    \cup {Chunks(Slice(data, 0, k - 1), <<Slice(data, k - 1, k), Slice(data, k, Len(data))>>) :
            k \in {2} \cap (1..Len(data))}

ColumnViews(col) ==
    IF col.variant = "Var" THEN {[col EXCEPT !.data = d] : d \in DataViews(col.data)}
    ELSE {col}

\* the views that present the logical data of batch b
ViewsOf(b) ==
    {[b EXCEPT !.columns = cs] :
        cs \in {f \in [1..Len(b.columns) -> UNION {ColumnViews(b.columns[i]) :
                                                       i \in 1..Len(b.columns)}] :
                   \A i \in 1..Len(b.columns) : f[i] \in ColumnViews(b.columns[i])}}

\* the owned batch a view presents
Coalesce(v) ==
    [v EXCEPT !.columns =
        [i \in 1..Len(v.columns) |->
            IF v.columns[i].variant # "Var" THEN v.columns[i]
            ELSE [v.columns[i] EXCEPT !.data =
                     IF v.columns[i].data.kind = "Contiguous" THEN v.columns[i].data.bytes
                     ELSE v.columns[i].data.inline \o Flatten(v.columns[i].data.chunks)]]]

-----------------------------------------------------------------------------
(* Calls of a caller that owns one output buffer, one workspace of each kind and one
   target batch.  batch (view) is the argument of the last owned (fast-path) encode *)

NoBatch == <<>>

SetEnableDictUtf8(enabled) ==
    /\ ws' = set_enable_dict_utf8(ws, enabled)
    /\ op' = "set_enable"
    /\ UNCHANGED <<batch, view, out, res, dws, decoded, target, cws, cdws, comp, bound,
                   bitmap, bitmap_rows, row_idx, call_arg, call_ret>>

SetEnableDeltaVarintI64(enabled) ==
    /\ ws' = set_enable_delta_varint_i64(ws, enabled)
    /\ op' = "set_enable"
    /\ UNCHANGED <<batch, view, out, res, dws, decoded, target, cws, cdws, comp, bound,
                   bitmap, bitmap_rows, row_idx, call_arg, call_ret>>

\* encode_mathldbt_v1_into_with_workspace(b, &mut out, &mut ws)
Encode(b) ==
    \E r \in {encode_mathldbt_v1_into_with_workspace(b, out, ws)} :
       /\ batch' = b /\ view' = NoBatch
       /\ out' = r.out /\ ws' = r.ws /\ res' = r.err
       /\ op' = "encode"
       /\ UNCHANGED <<dws, decoded, target, cws, cdws, comp, bound,
                      bitmap, bitmap_rows, row_idx, call_arg, call_ret>>

\* encode_mathldbt_v1_fast_path_into_with_workspace(v, &mut out, &mut ws)
EncodeFastPath(v) ==
    \E r \in {encode_mathldbt_v1_fast_path_into_with_workspace(v, out, ws)} :
       /\ view' = v /\ batch' = NoBatch
       /\ out' = r.out /\ ws' = r.ws /\ res' = r.err
       /\ op' = "fast_path"
       /\ UNCHANGED <<dws, decoded, target, cws, cdws, comp, bound,
                      bitmap, bitmap_rows, row_idx, call_arg, call_ret>>

\* encode_into_opt_with_workspace putting the caller's flags back before it returns
encode_opt_restores_flags(b) ==
    \E w \in {set_enable_delta_varint_i64(set_enable_dict_utf8(ws, TRUE), TRUE)} :
    \E r \in {encode_mathldbt_v1_into_with_workspace(b, out, w)} :
       /\ batch' = b /\ view' = NoBatch
       /\ out' = r.out /\ res' = r.err
       /\ ws' = set_enable_delta_varint_i64(set_enable_dict_utf8(r.ws, ws.enable_dict_utf8),
                                            ws.enable_delta_varint_i64)
       /\ op' = "encode_opt"
       /\ UNCHANGED <<dws, decoded, target, cws, cdws, comp, bound,
                      bitmap, bitmap_rows, row_idx, call_arg, call_ret>>

\* encode_into_opt_with_workspace (exports.rs): enable_opt_encodings sets both flags on the
\* caller's workspace, then the owned encoder runs
EncodeOpt(b) ==
    \E w \in {set_enable_delta_varint_i64(set_enable_dict_utf8(ws, TRUE), TRUE)} :
    \E r \in {encode_mathldbt_v1_into_with_workspace(b, out, w)} :
       /\ batch' = b /\ view' = NoBatch
       /\ out' = r.out /\ ws' = r.ws /\ res' = r.err
       /\ op' = "encode_opt"
       /\ UNCHANGED <<dws, decoded, target, cws, cdws, comp, bound,
                      bitmap, bitmap_rows, row_idx, call_arg, call_ret>>

\* encode_mathldbt_v1_fast_path_into_opt_with_workspace
EncodeFastPathOpt(v) ==
    \E w \in {set_enable_delta_varint_i64(set_enable_dict_utf8(ws, TRUE), TRUE)} :
    \E r \in {encode_mathldbt_v1_fast_path_into_with_workspace(v, out, w)} :
       /\ view' = v /\ batch' = NoBatch
       /\ out' = r.out /\ ws' = r.ws /\ res' = r.err
       /\ op' = "fast_path_opt"
       /\ UNCHANGED <<dws, decoded, target, cws, cdws, comp, bound,
                      bitmap, bitmap_rows, row_idx, call_arg, call_ret>>

\* decode_mathldbt_v1_with_workspace(&out, &mut dws)
Decode ==
    \E d \in {decode_mathldbt_v1_with_workspace(out, dws)} :
       /\ decoded' = d.batch /\ dws' = d.dws /\ res' = d.err /\ op' = "decode"
       /\ UNCHANGED <<batch, view, ws, out, target, cws, cdws, comp, bound,
                      bitmap, bitmap_rows, row_idx, call_arg, call_ret>>

\* decode_mathldbt_v1_into_with_workspace(&out, &mut target, &mut dws), the caller
\* having put t in its target first
DecodeInto(t) ==
    \E d \in {decode_mathldbt_v1_into_with_workspace(out, t, dws)} :
       /\ target' = d.out /\ dws' = d.dws /\ res' = d.err /\ op' = "decode_into"
       /\ UNCHANGED <<batch, view, ws, out, decoded, cws, cdws, comp, bound,
                      bitmap, bitmap_rows, row_idx, call_arg, call_ret>>

-----------------------------------------------------------------------------
(* SpecPipeline: one batch taken from ValidBatches goes through encode, decode and
   in-place decode, or through the fast-path encoder, under every flag setting *)

InitPipeline ==
    /\ batch \in ValidBatches
    /\ view = NoBatch
    /\ ws = DefaultEncodeWorkspace
    /\ out = <<>> /\ res = "none" /\ op = "init"
    /\ dws = DefaultDecodeWorkspace /\ decoded = NoBatch /\ target = NoBatch
    /\ cws = DefaultCompressedWorkspace /\ cdws = DefaultCompressedWorkspace
    /\ comp = CompressionNone /\ bound = 0
    /\ bitmap = <<>> /\ bitmap_rows = 0 /\ row_idx = 0
    /\ call_arg = <<>> /\ call_ret = <<>>

\* targets whose schema equals the schema of b
TargetsFor(b) == {b, AllInvalidBatch(b.schema, 0), AllInvalidBatch(b.schema, MaxRows)}

NextPipeline ==
    \/ op \in {"init", "set_enable"} /\ \E e \in BOOLEAN : SetEnableDictUtf8(e)
    \/ op \in {"init", "set_enable"} /\ \E e \in BOOLEAN : SetEnableDeltaVarintI64(e)
    \/ op \in {"init", "set_enable"} /\ Encode(batch)
    \/ op \in {"init", "set_enable"} /\ \E v \in ViewsOf(batch) : EncodeFastPath(v)
    \/ op = "encode" /\ res = "Ok" /\ Decode
    \/ op = "decode" /\ \E t \in TargetsFor(batch) : DecodeInto(t)

SpecPipeline == InitPipeline /\ [][NextPipeline]_vars

-----------------------------------------------------------------------------
(* Properties of the pipeline *)

RECURSIVE FrameDescriptors(_, _, _, _, _)
\* the column descriptors of a frame, as the decoder parses them
FrameDescriptors(bytes, pos, row_count, k, acc) ==
    IF k = 0 THEN acc
    ELSE LET h == parse_col_head(bytes, pos)
             b == parse_col_body(bytes, h.pos, ceil_div_8(row_count))
         IN IF h.err # "Ok" \/ b.err # "Ok" THEN acc
            ELSE FrameDescriptors(bytes, b.pos, row_count, k - 1,
                                  Append(acc, [ty |-> h.ty, enc |-> h.enc, name |-> h.name,
                                               validity |-> b.validity, p1 |-> b.p1,
                                               p2 |-> b.p2]))

Descriptors(bytes) ==
    LET h == parse_header(bytes)
    IN IF h.err # "Ok" THEN <<>>
       ELSE FrameDescriptors(bytes, h.pos, h.row_count, h.col_count, <<>>)

\* the frame in out was written by the owned encoder for batch
Encoded == op = "encode" /\ res = "Ok" /\ Len(Descriptors(out)) = Len(batch.columns)

\* C1: decoding the bytes the owned encoder produced for an accepted batch succeeds
\* and returns a batch equal to it, under every setting of the two flags
C1_RoundTrip == op = "decode" => (res = "Ok" /\ decoded = batch)

\* C2: whenever the encoder commits encoding id 3 for a column, decoding the staged
\* delta payload returns exactly the original values
C2_DeltaFidelity ==
    Encoded =>
        \A i \in 1..Len(batch.columns) :
            Descriptors(out)[i].enc = ENC_DELTA_VARINT_I64 =>
                decode_delta_varint_i64_from_payload(
                    Descriptors(out)[i].p1, batch.row_count, ZeroValues(batch.row_count, 8))
                = [err |-> "Ok", values |-> batch.columns[i].values]

\* C3: whenever the encoder commits encoding id 2 for a column, the column the
\* dictionary decoder materializes has the validity, offsets and data of the original
C3_DictSemantics ==
    Encoded =>
        \A i \in 1..Len(batch.columns) :
            Descriptors(out)[i].enc = ENC_DICT_UTF8 =>
                LET d == Descriptors(out)[i]
                    r == decode_dict_utf8_to_var_col(DefaultDecodeWorkspace, batch.row_count,
                                                     d.validity, d.p1, d.p2, <<>>, <<>>)
                IN /\ r.err = "Ok"
                   /\ d.validity = batch.columns[i].validity
                   /\ r.offsets = batch.columns[i].offsets
                   /\ r.data = batch.columns[i].data

\* C5: the in-place decode of an encoded batch into a target of the batch's schema
\* succeeds and leaves the target equal to the batch the allocating decode returned
C5_InPlaceEquivalence == op = "decode_into" => (res = "Ok" /\ target = decoded)

\* C6: the fast-path encoder gives the result and the bytes of the owned encoder on the
\* batch the view presents, whatever the chunking and the flags
C6_FastPathEquivalence ==
    op = "fast_path" =>
        \A r \in {encode_mathldbt_v1_into_with_workspace(Coalesce(view), <<>>,
                                                         FreshWorkspace(ws))} :
            res = r.err /\ out = r.out

\* a dictionary-encoded column was written from data split into an inline slice and
\* two chunks
C6_Witness ==
    /\ op = "fast_path" /\ res = "Ok"
    /\ ws.enable_dict_utf8 /\ ws.enable_delta_varint_i64
    /\ \E i \in 1..Len(view.columns) :
          /\ view.columns[i].variant = "Var"
          /\ view.columns[i].data.kind = "Chunks"
          /\ view.columns[i].data.inline # <<>>
          /\ Len(view.columns[i].data.chunks) = 2
          /\ Len(Descriptors(out)) = Len(view.columns)
          /\ Descriptors(out)[i].enc = ENC_DICT_UTF8

\* the size of the candidate the encoder staged for column i, 0 when it staged none
CandidateSize(i) ==
    LET col == batch.columns[i]
    IN The({IF col.variant = "Var"
            THEN Len(sel.ws.dict_indices_bytes) + Len(sel.ws.dict_blob)
            ELSE Len(sel.ws.delta_buf) :
            sel \in {select_encoding(FreshWorkspace(ws), batch.schema[i], col,
                                     batch.row_count)}})

PlainSize(i) ==
    IF batch.columns[i].variant = "Var"
    THEN 4 * (batch.row_count + 1) + Len(batch.columns[i].data)
    ELSE 8 * batch.row_count

\* C9: a column written with id 3 has a delta payload shorter than 8*row_count, one
\* written with id 2 has indices plus blob smaller than 4*(row_count+1) + |data|, and a
\* candidate as large as plain or larger is written with id 0
C9_MonotoneSize ==
    (op = "encode" /\ res = "Ok") =>
        \A ds \in {x \in {Descriptors(out)} : Len(x) = Len(batch.columns)} :
            \A i \in 1..Len(batch.columns) :
                \A d \in {ds[i]}, size \in {CandidateSize(i)} :
                    /\ d.enc = ENC_DELTA_VARINT_I64 => Len(d.p1) < 8 * batch.row_count
                    /\ d.enc = ENC_DICT_UTF8 =>
                          Len(d.p1) + Len(d.p2) < 4 * (batch.row_count + 1)
                                                  + Len(batch.columns[i].data)
                    /\ (size >= PlainSize(i)) => d.enc = ENC_PLAIN
                    /\ d.enc \in {ENC_DELTA_VARINT_I64, ENC_DICT_UTF8}
                          => size = Len(d.p1) + Len(d.p2)

\* a delta candidate exactly as large as plain was staged and the column went out plain
C9_Witness ==
    /\ Encoded /\ ws.enable_delta_varint_i64
    /\ batch.row_count > 0
    /\ batch.columns[1].variant = "FixedI64"
    /\ CandidateSize(1) = PlainSize(1)
    /\ Descriptors(out)[1].enc = ENC_PLAIN

-----------------------------------------------------------------------------
(* Spec: an encode session.  One caller keeps one output buffer and one encode
   workspace and makes any sequence of encode calls and flag changes with them *)

FallingColumn == [variant |-> "FixedI64", validity |-> AllValid(MaxRows),
                  values |-> [i \in 1..MaxRows |-> IF i = 1 THEN I64One ELSE I64Zero]]

ConstantColumn == [variant |-> "FixedI64", validity |-> AllValid(MaxRows),
                   values |-> [i \in 1..MaxRows |-> I64One]]

RepeatColumn == [variant |-> "Var", ty |-> "Utf8", validity |-> AllValid(MaxRows),
                 offsets |-> [i \in 1..(MaxRows + 1) |-> i - 1],
                 data |-> [i \in 1..MaxRows |-> 97]]

AlternatingColumn == [variant |-> "Var", ty |-> "Utf8", validity |-> AllValid(MaxRows),
                      offsets |-> [i \in 1..(MaxRows + 1) |-> i - 1],
                      data |-> [i \in 1..MaxRows |-> IF i % 2 = 1 THEN 97 ELSE 98]]

\* a batch whose row count disagrees with its column, which validate() rejects
WrongRowCount(b) == [b EXCEPT !.row_count = MaxRows + 1]

SessionBatches ==
    {OneColumn(NoName, FallingColumn, MaxRows),
     OneColumn(SomeName(<<110>>), RepeatColumn, MaxRows),
     TwoColumns(AlternatingColumn, ConstantColumn, MaxRows),
     WrongRowCount(OneColumn(NoName, FallingColumn, MaxRows))}

SessionViews ==
    {[b EXCEPT !.columns[1].data = Contiguous(b.columns[1].data)] :
        b \in {OneColumn(SomeName(<<110>>), RepeatColumn, MaxRows)}}
    \cup {[b EXCEPT !.columns[1].data =
               Chunks(Slice(b.columns[1].data, 0, 1),
                      <<Slice(b.columns[1].data, 1, Len(b.columns[1].data))>>)] :
            b \in {TwoColumns(AlternatingColumn, ConstantColumn, MaxRows),
                   WrongRowCount(OneColumn(NoName, RepeatColumn, MaxRows))}}
    \cup {OneColumn(NoName, FallingColumn, MaxRows)}

Init ==
    /\ batch = NoBatch /\ view = NoBatch
    /\ ws = DefaultEncodeWorkspace
    /\ out = <<>> /\ res = "none" /\ op = "init"
    /\ dws = DefaultDecodeWorkspace /\ decoded = NoBatch /\ target = NoBatch
    /\ cws = DefaultCompressedWorkspace /\ cdws = DefaultCompressedWorkspace
    /\ comp = CompressionNone /\ bound = 0
    /\ bitmap = <<>> /\ bitmap_rows = 0 /\ row_idx = 0
    /\ call_arg = <<>> /\ call_ret = <<>>

Next ==
    \/ \E e \in BOOLEAN : SetEnableDictUtf8(e)
    \/ \E e \in BOOLEAN : SetEnableDeltaVarintI64(e)
    \/ \E b \in SessionBatches : Encode(b)
    \/ \E v \in SessionViews : EncodeFastPath(v)
    \/ \E b \in SessionBatches : EncodeOpt(b)
    \/ \E v \in SessionViews : EncodeFastPathOpt(v)

Spec == Init /\ [][Next]_vars

\* what the last encode call returns when it is made with buffer out0 and a workspace
\* that has the flags of w and has never been used
FreshCall(o, b, v, out0, w) ==
    IF o \in {"encode", "encode_opt"}
    THEN encode_mathldbt_v1_into_with_workspace(b, out0, FreshWorkspace(w))
    ELSE encode_mathldbt_v1_fast_path_into_with_workspace(v, out0, FreshWorkspace(w))

EncodeOps == {"encode", "fast_path", "encode_opt", "fast_path_opt"}

\* C4: an encode call on a workspace that earlier calls have used returns the result and
\* the bytes that the same call on a never-used workspace with the same flags returns
C4_Determinism ==
    [][op' \in EncodeOps =>
        \A r \in {FreshCall(op', batch', view', out, ws')} :
            res' = r.err /\ out' = r.out]_vars

\* a successful owned encode of the i64 batch on a workspace whose dictionary, delta and
\* coalescing scratch all hold the leftovers of earlier calls
C4_Witness ==
    /\ op = "encode" /\ res = "Ok"
    /\ batch = OneColumn(NoName, FallingColumn, MaxRows)
    /\ ws.enable_delta_varint_i64
    /\ ws.view_var_coalesce # <<>>
    /\ ws.dict_blob # <<>>
    /\ ws.delta_buf # <<>>

\* C10: every encode call leaves in the buffer what the same call leaves in an empty
\* buffer: one frame on success, none of the earlier bytes when the input is rejected
C10_ClearsAtEntry ==
    [][op' \in EncodeOps =>
        out' = FreshCall(op', batch', view', <<>>, ws').out]_vars

-----------------------------------------------------------------------------
(* SpecCompressed: one caller with one buffer, one workspace of each kind and one target
   batch makes any sequence of compressed encode and decode calls, under any scheme and
   bound, and may put bytes from elsewhere into the buffer *)

MaxBound == 128

CompressedBatch == OneColumn(SomeName(<<110>>), RepeatColumn, MaxRows)

CompressedBatches == {CompressedBatch, WrongRowCount(CompressedBatch)}

EncodeSchemes == {CompressionNone, Zstd(3), Gzip(6), Zstd(23), Gzip(10)}

DecodeSchemes == {CompressionNone, Zstd(3), Gzip(6)}

Bounds == {0, MaxBound}

\* bytes no encoder of the model produced: an empty zstd frame and a stray byte
ForeignBytes == {ZstdMagic, <<1>>}

\* encode_mathldbt_v1_compressed_into_with_workspace(b, &mut out, c, &mut ws, &mut cws)
EncodeCompressed(b, c) ==
    \E r \in {encode_mathldbt_v1_compressed_into_with_workspace(b, out, c, ws, cws)} :
       /\ batch' = b /\ comp' = c
       /\ out' = r.out /\ ws' = r.ws /\ cws' = r.cws /\ res' = r.err
       /\ op' = "encode_compressed"
       /\ UNCHANGED <<view, dws, decoded, target, cdws, bound,
                      bitmap, bitmap_rows, row_idx, call_arg, call_ret>>

\* the caller takes bytes from elsewhere as the input of the decoders
Receive(bytes) ==
    /\ out' = bytes /\ op' = "receive"
    /\ UNCHANGED <<batch, view, ws, res, dws, decoded, target, cws, cdws, comp, bound,
                   bitmap, bitmap_rows, row_idx, call_arg, call_ret>>

\* decode_mathldbt_v1_compressed_with_workspace(&out, c, m, &mut dws, &mut cdws)
DecodeCompressed(c, m) ==
    \E d \in {decode_mathldbt_v1_compressed_with_workspace(out, c, m, dws, cdws)} :
       /\ comp' = c /\ bound' = m
       /\ decoded' = d.batch /\ dws' = d.dws /\ cdws' = d.cws /\ res' = d.err
       /\ op' = "decode_compressed"
       /\ UNCHANGED <<batch, view, ws, out, target, cws,
                      bitmap, bitmap_rows, row_idx, call_arg, call_ret>>

\* decode_mathldbt_v1_compressed_into_with_workspace(&out, c, m, &mut target, &mut dws, &mut cdws)
DecodeCompressedInto(c, m) ==
    \E d \in {decode_mathldbt_v1_compressed_into_with_workspace(out, c, m, target, dws, cdws)} :
       /\ comp' = c /\ bound' = m
       /\ target' = d.out /\ dws' = d.dws /\ cdws' = d.cws /\ res' = d.err
       /\ op' = "decode_compressed_into"
       /\ UNCHANGED <<batch, view, ws, out, decoded, cws,
                      bitmap, bitmap_rows, row_idx, call_arg, call_ret>>

InitCompressed ==
    /\ batch = NoBatch /\ view = NoBatch
    /\ ws = DefaultEncodeWorkspace
    /\ out = <<>> /\ res = "none" /\ op = "init"
    /\ dws = DefaultDecodeWorkspace /\ decoded = NoBatch
    /\ target = AllInvalidBatch(CompressedBatch.schema, 0)
    /\ cws = DefaultCompressedWorkspace /\ cdws = DefaultCompressedWorkspace
    /\ comp = CompressionNone /\ bound = 0
    /\ bitmap = <<>> /\ bitmap_rows = 0 /\ row_idx = 0
    /\ call_arg = <<>> /\ call_ret = <<>>

NextCompressed ==
    \/ \E e \in BOOLEAN : SetEnableDictUtf8(e)
    \/ \E b \in CompressedBatches, c \in EncodeSchemes : EncodeCompressed(b, c)
    \/ \E bytes \in ForeignBytes : Receive(bytes)
    \/ \E c \in DecodeSchemes, m \in Bounds : DecodeCompressed(c, m)
    \/ \E c \in DecodeSchemes, m \in Bounds : DecodeCompressedInto(c, m)

SpecCompressed == InitCompressed /\ [][NextCompressed]_vars

\* C7: under Compression::None the compressed encoder returns what the inner encoder
\* returns and on Ok leaves the inner encoder's bytes in the buffer, and the compressed
\* decoder returns what decode_mathldbt_v1 returns for the same bytes, whatever the bound
C7_NoneIdentity ==
    /\ (op = "encode_compressed" /\ comp.scheme = "None") =>
          \A r \in {encode_mathldbt_v1_into_with_workspace(batch, <<>>, FreshWorkspace(ws))} :
              res = r.err /\ (res = "Ok" => out = r.out)
    /\ (op = "decode_compressed" /\ comp.scheme = "None") =>
          \A d \in {decode_mathldbt_v1_with_workspace(out, DefaultDecodeWorkspace)} :
              res = d.err /\ decoded = d.batch

\* a frame written under Compression::None is decoded under Compression::None with bound 0
C7_Witness ==
    /\ op = "decode_compressed" /\ comp.scheme = "None" /\ bound = 0
    /\ res = "Ok" /\ decoded = batch
    /\ out # <<>> /\ out = cws.plain

\* C8: a compressed decode under Zstd or Gzip with bound 0 returns the bound error and
\* leaves the staging buffer, the codec workspace and the target batch as they were
C8_ZeroBound ==
    [][(/\ op' \in {"decode_compressed", "decode_compressed_into"}
        /\ comp'.scheme \in {"Zstd", "Gzip"}
        /\ bound' = 0)
       => (res' = BoundErr /\ cdws' = cdws /\ dws' = dws /\ target' = target)]_vars

\* the bound error on an in-place decode that found a used staging buffer, a used codec
\* workspace and a filled target
C8_Witness ==
    /\ op = "decode_compressed_into" /\ comp.scheme \in {"Zstd", "Gzip"} /\ bound = 0
    /\ res = BoundErr
    /\ cdws.plain # <<>> /\ dws.dict_offsets # <<>> /\ target = batch


-----------------------------------------------------------------------------
(* SpecWire: frames that no encoder wrote reach the two decoders.  A frame is built
   field by field, the way the adversarial tests build theirs, so every length, offset
   and encoding id can disagree with the rest of the frame *)

MaxWireRows == 2

\* a magic number that differs from b"MATHLDBT" in its last byte
BadMagic == <<77, 65, 84, 72, 76, 68, 66, 88>>

\* build_minimal_header with the magic, the version and the schema id as arguments
wire_header(magic, version, row_count, col_count, schema_id) ==
    magic \o write_u16_le(version) \o write_u16_le(0) \o write_u32_le(row_count)
          \o write_u16_le(col_count) \o write_u16_len_bytes(schema_id)

build_minimal_header(row_count, col_count) ==
    wire_header(MAGIC, VERSION, row_count, col_count, <<>>)

push_col_descriptor(out0, tid, encoding_id, name_bytes, validity_len, validity_bytes, payload1, payload2) ==
    out0 \o write_u16_le(tid) \o write_u16_le(encoding_id) \o write_u16_le(0)
         \o write_u16_len_bytes(name_bytes) \o write_u32_le(validity_len) \o validity_bytes
         \o write_u32_len_bytes(payload1) \o write_u32_len_bytes(payload2)

\* a frame of one unnamed column
OneColumnFrame(n, ty, enc, validity, p1, p2) ==
    push_col_descriptor(build_minimal_header(n, 1), type_id(ty), enc, <<>>, Len(validity),
                        validity, p1, p2)

Zeros(n) == [i \in 1..n |-> 0]

\* u32 values as their little-endian image
OffsetsLE(o) == Flatten([i \in 1..Len(o) |-> write_u32_le(o[i])])

\* headers with a wrong magic, another version, no column or a schema id, each followed
\* by one Bool column and cut at every length
HeaderFrames ==
    UNION {{Slice(f, 0, k) : k \in 0..Len(f)} :
           f \in {wire_header(m, v, 1, c, s)
                      \o push_col_descriptor(<<>>, type_id("Bool"), ENC_PLAIN, <<>>, 1,
                                             <<1>>, <<1>>, <<>>) :
                  m \in {MAGIC, BadMagic}, v \in {VERSION, 2}, c \in {0, 1},
                  s \in {<<>>, <<7, 7>>}}}

\* a plain Utf8 column whose offsets array has any length and any order
PlainVarFrames ==
    {OneColumnFrame(n, "Utf8", ENC_PLAIN, v, OffsetsLE(o), d) :
        n \in 0..MaxWireRows, v \in {<<>>, <<1>>}, d \in {<<>>, <<97>>, <<97, 98>>},
        o \in UNION {[1..k -> 0..2] : k \in 0..(MaxWireRows + 1)}}

\* single varints: complete, cut off, ten bytes with and without bits above bit 63,
\* eleven bytes
WireVarints ==
    {<<0>>, <<1>>, <<128>>, <<128, 1>>,
     [i \in 1..10 |-> IF i < 10 THEN 255 ELSE 1],
     [i \in 1..10 |-> IF i < 10 THEN 128 ELSE 2],
     [i \in 1..10 |-> IF i < 10 THEN 255 ELSE 127],
     [i \in 1..11 |-> IF i < 11 THEN 128 ELSE 1]}

\* delta payloads: a base of 0, 7 or 8 bytes followed by zero, one or two varints
DeltaPayloads ==
    {<<>>, Zeros(7)}
    \cup {I64One \o t : t \in {<<>>} \cup WireVarints
                              \cup {a \o b : a \in {<<0>>, <<128, 1>>}, b \in WireVarints}}

DeltaFrames ==
    {OneColumnFrame(n, ty, ENC_DELTA_VARINT_I64, AllValid(n), p, <<>>) :
        n \in 0..MaxWireRows, ty \in {"I64", "TimestampTzMicros"}, p \in DeltaPayloads}

\* dictionary blobs: index width, dictionary count, offsets and bytes chosen apart
DictBlobs ==
    {<<>>, <<1, 1, 0, 0>>, <<4, 1, 0, 0, 0, 0, 0, 0, 0, 1, 0, 0, 0, 97>>}
    \cup {<<w>> \o write_u32_le(c) \o OffsetsLE(o) \o b :
             w \in {1, 2, 3}, c \in 0..2, b \in {<<>>, <<97>>, <<97, 98>>},
             o \in {<<0>>, <<0, 1>>, <<0, 2>>, <<1, 0>>, <<0, 1, 2>>, <<0, 2, 1>>}}

DictIndices ==
    {<<>>, <<0>>, <<1>>, <<2>>, <<0, 1>>, <<1, 0>>, <<0, 2>>, <<1, 0, 0, 0>>}

DictFrames ==
    {OneColumnFrame(n, "Utf8", ENC_DICT_UTF8, v, p1, p2) :
        n \in 1..MaxWireRows, v \in {<<0>>, <<1>>, <<2>>, <<3>>}, p1 \in DictIndices,
        p2 \in DictBlobs}
    \cup {OneColumnFrame(1, ty, ENC_DICT_UTF8, <<1>>, <<0>>, p2) :
             ty \in {"Bytes", "JsonbText"}, p2 \in DictBlobs}

\* every column type under every encoding id, with a payload of the right length or
\* one byte more and with an empty or a non-empty second payload
EncodingFrames ==
    {OneColumnFrame(n, ty, enc, AllValid(n),
                    Zeros((IF ty \in VarTypes THEN 4 * (n + 1) ELSE n * elem_size(ty)) + x),
                    p2) :
        n \in 0..1, ty \in ColumnarType, enc \in 0..4, x \in 0..1, p2 \in {<<>>, <<0>>}}

\* two plain columns of one row
TwoColumnFrames ==
    {push_col_descriptor(
         push_col_descriptor(build_minimal_header(1, 2), type_id(t1), ENC_PLAIN, n1, 1,
                             <<1>>, Zeros(elem_size(t1)), <<>>),
         type_id(t2), ENC_PLAIN, n2, 1, <<1>>, Zeros(elem_size(t2)), <<>>) :
        t1 \in {"Bool", "I32"}, t2 \in {"Bool", "I32"}, n1 \in {<<>>, <<110>>},
        n2 \in {<<>>, <<110>>}}

WireFrames ==
    HeaderFrames \cup PlainVarFrames \cup DeltaFrames \cup DictFrames \cup EncodingFrames
                 \cup TwoColumnFrames

\* the schema a frame declares, as far as its descriptors parse
FrameSchema(bytes) ==
    [i \in 1..Len(Descriptors(bytes)) |->
        [name |-> Descriptors(bytes)[i].name, ty |-> Descriptors(bytes)[i].ty]]

\* another type of the same kind
OtherType(ty) ==
    CASE ty = "Utf8" -> "JsonbText"
      [] ty \in VarTypes \ {"Utf8"} -> "Utf8"
      [] ty = "I64" -> "TimestampTzMicros"
      [] OTHER -> "I64"

\* the schema itself and the schemas that differ from it in one type, in one name, or
\* in the number of fields
SchemaVariants(s) ==
    {s, Append(s, [name |-> NoName, ty |-> "Bool"])}
    \cup {[s EXCEPT ![i].ty = OtherType(s[i].ty)] : i \in DOMAIN s}
    \cup {[s EXCEPT ![i].name = nm] : i \in DOMAIN s, nm \in {NoName, SomeName(<<>>)}}
    \cup (IF Len(s) > 1 THEN {SubSeq(s, 1, Len(s) - 1)} ELSE {})

\* the targets the caller offers to the in-place decoder for a frame
WireTargets(bytes) ==
    IF FrameSchema(bytes) = <<>> THEN {AllInvalidBatch(<<[name |-> NoName, ty |-> "Bool"]>>, 0)}
    ELSE {AllInvalidBatch(s, 0) : s \in SchemaVariants(FrameSchema(bytes))}

InitWire ==
    /\ batch = NoBatch /\ view = NoBatch
    /\ ws = DefaultEncodeWorkspace
    /\ out = <<>> /\ res = "none" /\ op = "init"
    /\ dws = DefaultDecodeWorkspace /\ decoded = NoBatch /\ target = NoBatch
    /\ cws = DefaultCompressedWorkspace /\ cdws = DefaultCompressedWorkspace
    /\ comp = CompressionNone /\ bound = 0
    /\ bitmap = <<>> /\ bitmap_rows = 0 /\ row_idx = 0
    /\ call_arg = <<>> /\ call_ret = <<>>

NextWire ==
    \/ op = "init" /\ \E f \in WireFrames : Receive(f)
    \/ op = "receive" /\ Decode
    \/ op = "receive" /\ \E t \in WireTargets(out) : DecodeInto(t)

SpecWire == InitWire /\ [][NextWire]_vars

-----------------------------------------------------------------------------
(* Properties of the decoders on arbitrary frames *)

DecodeOps == {"decode", "decode_into"}

\* a failed decode hands no batch to the caller: the allocating form returns none and
\* the in-place form leaves the offered target as it was
NothingDecoded ==
    /\ op = "decode" => decoded = NoBatch
    /\ op = "decode_into" => target \in WireTargets(out)

\* the first header check a frame fails, read off the wire layout: magic at 0, version
\* at 8, flags at 10, row count at 12, column count at 16, schema id at 18
HeaderSentinel(b) ==
    IF Len(b) < 8 THEN "truncated mathldbt"
    ELSE IF SubSeq(b, 1, 8) # <<77, 65, 84, 72, 76, 68, 66, 84>> THEN "invalid MATHLDBT magic"
    ELSE IF Len(b) < 10 THEN "truncated mathldbt"
    ELSE IF b[9] + 256 * b[10] # 1
    THEN "unsupported MATHLDBT version: " \o ToString(b[9] + 256 * b[10])
    ELSE IF Len(b) < 18 THEN "truncated mathldbt"
    ELSE IF b[17] + 256 * b[18] = 0 THEN "MATHLDBT must have at least one column"
    ELSE IF Len(b) < 20 \/ Len(b) < 20 + b[19] + 256 * b[20] THEN "truncated mathldbt"
    ELSE "Ok"

\* C11: both decoders report the first failing header check in the order magic,
\* version, flags, row count, column count, schema id, with the message of that check,
\* and hand no batch to the caller
C11_HeaderSentinels ==
    (op \in DecodeOps /\ HeaderSentinel(out) # "Ok")
        => (res = HeaderSentinel(out) /\ NothingDecoded)

\* a frame with a wrong magic and a wrong version is refused for its magic by the
\* in-place decoder
C11_Witness ==
    /\ op = "decode_into" /\ Len(out) >= 18
    /\ SubSeq(out, 1, 8) = BadMagic /\ out[9] = 2 /\ out[17] = 0
    /\ res = "invalid MATHLDBT magic"

\* the row count a frame declares
WireRows(b) == u32_from_le(b, 12)

\* the data-model invariants of one column: its type is the field's type, its validity
\* has ceil(n/8) bytes, a fixed-width column has n values, a variable-length column has
\* n+1 offsets that start at 0, never decrease and end at the length of the data.  The
\* invariants speak of the shape a column has, so a column of the variable-length shape
\* that declares a fixed-width type meets them
WellFormedColumn(col, ty, n) ==
    /\ ColTy(col) = ty
    /\ Len(col.validity) = (n + 7) \div 8
    /\ col.variant # "Var" => Len(col.values) = n
    /\ col.variant = "Var" =>
          /\ Len(col.offsets) = n + 1
          /\ col.offsets[1] = 0
          /\ \A i \in 1..n : col.offsets[i] <= col.offsets[i + 1]
          /\ col.offsets[n + 1] = Len(col.data)

WellFormed(b) ==
    /\ Len(b.schema) >= 1
    /\ Len(b.columns) = Len(b.schema)
    /\ \A i \in 1..Len(b.schema) : WellFormedColumn(b.columns[i], b.schema[i].ty, b.row_count)

\* the frame in out holds one column of the given encoding, and the decoder that ran
\* was the allocating one or the in-place one on a target of the frame's schema
OneColumnDecoded(enc) ==
    /\ op \in DecodeOps
    /\ Len(Descriptors(out)) = 1 /\ u16_from_le(out, 16) = 1
    /\ Descriptors(out)[1].enc = enc
    /\ op = "decode_into" => target.schema = FrameSchema(out)

\* C12: a batch returned by decode_mathldbt_v1, and a target after an Ok return of
\* decode_mathldbt_v1_into, satisfies the data-model invariants; for a plain
\* variable-length column the decoder reports a wrong offsets length first, then
\* decreasing offsets, then a final offset that is not the length of the data
C12_StrictDecode ==
    /\ (op = "decode" /\ res = "Ok") => WellFormed(decoded)
    /\ (op = "decode_into" /\ res = "Ok") => WellFormed(target)
    /\ (OneColumnDecoded(ENC_PLAIN) /\ Descriptors(out)[1].ty \in VarTypes) =>
          LET d == Descriptors(out)[1]
              n == WireRows(out)
              o == OffsetsFromLE(d.p1, Len(d.p1) \div 4)
          IN IF Len(d.p1) # 4 * (n + 1) THEN res = "offsets length mismatch"
             ELSE IF \E i \in 1..n : o[i] > o[i + 1]
             THEN res = "offsets must be non-decreasing"
             ELSE o[n + 1] # Len(d.p2) => res = "final offset mismatch"

\* the in-place decoder filled a target with a two-row string column
C12_Witness ==
    /\ op = "decode_into" /\ res = "Ok" /\ target.row_count = 2
    /\ target.columns[1].variant = "Var" /\ target.columns[1].data = <<97, 98>>
    /\ target.columns[1].offsets = <<0, 1, 2>>

\* the frame in out holds one I64 or TimestampTzMicros column with encoding id 3 and
\* an empty second payload
DeltaColumnDecoded ==
    /\ OneColumnDecoded(ENC_DELTA_VARINT_I64)
    /\ Descriptors(out)[1].ty \in {"I64", "TimestampTzMicros"}
    /\ Descriptors(out)[1].p2 = <<>>

\* what follows the 8-byte base in the payload of that column
DeltaTail == SubSeq(Descriptors(out)[1].p1, 9, Len(Descriptors(out)[1].p1))

\* the number of varints that end inside t: a varint ends at a byte below 0x80
VarintsEnding(t) == Cardinality({i \in 1..Len(t) : t[i] < 128})

\* t is a whole number of varints
EndsOnVarint(t) == t = <<>> \/ t[Len(t)] < 128

\* some varint of t has more than ten bytes
LongVarint(t) == \E i \in 1..Len(t) : i + 9 <= Len(t) /\ \A j \in i..(i + 9) : t[j] >= 128

\* C13: for a column with encoding id 3 and any row count, decode succeeds only if
\* payload1 is an 8-byte base followed by exactly rowCount-1 complete varints and
\* nothing else; a payload under 8 bytes gives "delta payload truncated", a varint cut
\* off by the end of the payload "truncated varint", a byte after the last expected
\* varint "trailing bytes in delta payload"
C13_DeltaStrictness ==
    DeltaColumnDecoded =>
        LET p == Descriptors(out)[1].p1
            k == IF WireRows(out) = 0 THEN 0 ELSE WireRows(out) - 1
        IN /\ Len(p) < 8 => res = "delta payload truncated"
           /\ (Len(p) >= 8 /\ ~LongVarint(DeltaTail) /\ VarintsEnding(DeltaTail) < k)
                 => res = "truncated varint"
           /\ (Len(p) >= 8 /\ ~LongVarint(DeltaTail) /\ VarintsEnding(DeltaTail) >= k
                 /\ ~(VarintsEnding(DeltaTail) = k /\ EndsOnVarint(DeltaTail)))
                 => res = "trailing bytes in delta payload"
           /\ res = "Ok" => (Len(p) >= 8 /\ VarintsEnding(DeltaTail) = k
                             /\ EndsOnVarint(DeltaTail))

\* C14: a varint whose value does not fit in 64 bits, be it longer than ten bytes or
\* ten bytes long with bits above bit 63 in its tenth byte, is refused with "varint
\* overflow"
C14_VarintOverflow ==
    (/\ DeltaColumnDecoded /\ WireRows(out) = 2 /\ Len(Descriptors(out)[1].p1) >= 8
     /\ VarintsEnding(DeltaTail) = 1 /\ EndsOnVarint(DeltaTail)
     /\ \/ Len(DeltaTail) > 10
        \/ Len(DeltaTail) = 10 /\ DeltaTail[10] > 1)
        => res = "varint overflow"

\* the column the last decode produced
DecodedColumn == IF op = "decode" THEN decoded.columns[1] ELSE target.columns[1]

\* the little-endian number in the w bytes of b after position pos
LEValue(b, pos, w) ==
    IF w = 1 THEN b[pos + 1]
    ELSE IF w = 2 THEN b[pos + 1] + 256 * b[pos + 2]
    ELSE b[pos + 1] + 256 * b[pos + 2] + 65536 * b[pos + 3] + 16777216 * b[pos + 4]

\* row r (from 0) is valid in the bitmap v
RowValid(v, r) == (v[(r \div 8) + 1] \div (2 ^ (r % 8))) % 2 = 1

\* C15: for a variable-length column with encoding id 2 and at least one row the decoder
\* refuses a Bytes column, an index width outside {1,2,4}, a blob too short for its
\* dictCount+1 offsets, dictionary offsets that decrease or do not end at the length of
\* the dictionary bytes, an index payload whose length is not rowCount*indexWidth, and
\* a valid row whose index is not below dictCount; otherwise every invalid row becomes
\* an empty slice whatever its index is, and every valid row the dictionary entry of
\* its index
C15_DictChecks ==
    (/\ OneColumnDecoded(ENC_DICT_UTF8) /\ Descriptors(out)[1].ty \in VarTypes
     /\ WireRows(out) >= 1) =>
        LET d == Descriptors(out)[1]
            n == WireRows(out)
            blob == d.p2
        IN IF d.ty = "Bytes" THEN res = "DictUtf8 is not supported for Bytes"
           ELSE Len(blob) >= 5 =>
                LET w == blob[1]
                    c == LEValue(blob, 1, 4)
                    o == [i \in 1..(c + 1) |-> LEValue(blob, 5 + 4 * (i - 1), 4)]
                    bytes == SubSeq(blob, 5 + 4 * (c + 1) + 1, Len(blob))
                IN IF w \notin {1, 2, 4} THEN res = "invalid dict index width"
                   ELSE IF Len(blob) < 5 + 4 * (c + 1) THEN res = "dict offsets truncated"
                   ELSE IF \/ o[c + 1] # Len(bytes)
                           \/ \E i \in 1..c : o[i] > o[i + 1]
                           \/ Len(d.p1) # n * w
                   THEN res # "Ok"
                   ELSE IF \E r \in 0..(n - 1) :
                              RowValid(d.validity, r) /\ LEValue(d.p1, r * w, w) >= c
                   THEN res = "dict index out of bounds"
                   ELSE /\ res = "Ok"
                        /\ \A r \in 0..(n - 1) :
                              SubSeq(DecodedColumn.data, DecodedColumn.offsets[r + 1] + 1,
                                     DecodedColumn.offsets[r + 2])
                                 = IF RowValid(d.validity, r)
                                   THEN SubSeq(bytes, o[LEValue(d.p1, r * w, w) + 1] + 1,
                                               o[LEValue(d.p1, r * w, w) + 2])
                                   ELSE <<>>

\* an invalid row whose index is outside the dictionary, followed by a valid row
C15_Witness ==
    /\ op = "decode" /\ res = "Ok" /\ Len(Descriptors(out)) = 1
    /\ Descriptors(out)[1].enc = ENC_DICT_UTF8
    /\ Descriptors(out)[1].validity = <<2>> /\ Descriptors(out)[1].p1 = <<1, 0>>
    /\ decoded.columns[1].offsets = <<0, 0, 1>> /\ decoded.columns[1].data = <<97>>

\* bytes per element of a fixed-width type on the wire
WireElemBytes(ty) ==
    CASE ty = "Bool" -> 1
      [] ty = "I16" -> 2
      [] ty \in {"I32", "F32"} -> 4
      [] ty \in {"I64", "F64", "TimestampTzMicros"} -> 8
      [] ty = "Uuid" -> 16

\* C16: for a fixed-width column the decoder accepts encoding ids 0 and 1, and 3 when
\* the type is I64 or TimestampTzMicros, and answers any other id with "invalid encoding
\* for fixed column"; then a non-empty payload2 gives "fixed-width payload_2 must be
\* empty", then a payload1 that is not rowCount*elem_size bytes (ids 0 and 1) gives
\* "values length mismatch".  For a variable-length column every id but 0 and 2 gives
\* "invalid encoding for varlen column"
C16_EncodingCompatibility ==
    \A e \in 0..4 :
        OneColumnDecoded(e) =>
            LET d == Descriptors(out)[1]
                n == WireRows(out)
            IN IF d.ty \in VarTypes
               THEN IF e \in {0, 2} THEN res # "invalid encoding for varlen column"
                    ELSE res = "invalid encoding for varlen column"
               ELSE IF ~(e \in {0, 1} \/ (e = 3 /\ d.ty \in {"I64", "TimestampTzMicros"}))
                    THEN res = "invalid encoding for fixed column"
                    ELSE IF d.p2 # <<>> THEN res = "fixed-width payload_2 must be empty"
                    ELSE IF e = 3 THEN res # "invalid encoding for fixed column"
                    ELSE IF Len(d.p1) # n * WireElemBytes(d.ty)
                    THEN res = "values length mismatch"
                    ELSE res = "Ok"

\* an F64 column under encoding id 3 with a non-empty payload2 is refused for its
\* encoding by the in-place decoder on a target of the same schema
C16_Witness ==
    /\ op = "decode_into" /\ Len(Descriptors(out)) = 1
    /\ Descriptors(out)[1].ty = "F64" /\ Descriptors(out)[1].enc = ENC_DELTA_VARINT_I64
    /\ Descriptors(out)[1].p2 = <<0>> /\ target.schema = FrameSchema(out)
    /\ res = "invalid encoding for fixed column"

\* C17: for a frame the allocating decoder accepts, the in-place decoder on a target
\* whose schema differs from the frame's in the number of fields, or in the type or the
\* name of some field, returns "decode_mathldbt_v1_into requires matching schema"
C17_SchemaMismatch ==
    (/\ op = "decode_into"
     /\ decode_mathldbt_v1_with_workspace(out, DefaultDecodeWorkspace).err = "Ok"
     /\ target.schema # FrameSchema(out))
        => res = "decode_mathldbt_v1_into requires matching schema"

\* a frame of two columns on a target whose second field has another name: the first
\* column was decoded into the target before the mismatch was found
C17_Witness ==
    /\ op = "decode_into" /\ res = "decode_mathldbt_v1_into requires matching schema"
    /\ Len(FrameSchema(out)) = 2 /\ Len(target.schema) = 2
    /\ target.schema[1] = FrameSchema(out)[1]
    /\ target.schema[2].ty = FrameSchema(out)[2].ty
    /\ target.schema[2].name # FrameSchema(out)[2].name
    /\ target.columns[1].validity = <<1>>

-----------------------------------------------------------------------------
(* The encoding ids the encoders put on the wire (SpecPipeline) *)

\* the batch or the view the last encode call was given
EncodeSource == IF op = "encode" THEN batch ELSE view

\* C18: in a frame written by either encoder no column carries encoding id 1; id 2 is
\* carried only by Utf8 and JsonbText columns and only when enable_dict_utf8 is set; id 3
\* only by I64 and TimestampTzMicros columns whose rows are all valid and only when
\* enable_delta_varint_i64 is set; every other column carries id 0
C18_EmittedEncodings ==
    (op \in {"encode", "fast_path"} /\ res = "Ok") =>
        \A ds \in {Descriptors(out)} :
            /\ Len(ds) = Len(EncodeSource.columns)
            /\ \A i \in 1..Len(ds) :
                  LET enc == ds[i].enc
                      ty == EncodeSource.schema[i].ty
                  IN /\ enc \in {0, 2, 3}
                     /\ enc = 2 => (ty \in {"Utf8", "JsonbText"} /\ ws.enable_dict_utf8)
                     /\ enc = 3 =>
                           /\ ty \in {"I64", "TimestampTzMicros"}
                           /\ ws.enable_delta_varint_i64
                           /\ \A r \in 0..(EncodeSource.row_count - 1) :
                                 RowValid(EncodeSource.columns[i].validity, r)
                     /\ ty = "Bytes" => enc = 0
                     /\ (~ws.enable_dict_utf8 /\ ~ws.enable_delta_varint_i64) => enc = 0

\* the fast path wrote an i64 column under id 3 and a string column under id 2
C18_Witness ==
    /\ op = "fast_path" /\ res = "Ok" /\ Len(Descriptors(out)) = 2
    /\ Descriptors(out)[1].enc = 3 /\ Descriptors(out)[2].enc = 2
    /\ view.schema[1].ty = "I64" /\ view.schema[2].ty = "Utf8"

-----------------------------------------------------------------------------
(* SpecBatch: a caller builds a validity bitmap, changes and reads its bits, puts it
   into columns and hands schema, row count and columns to ColumnarBatch::new *)

MaxBitmapRows == 9

\* ValidityBitmap::new_all_invalid
validity_new_all_invalid(row_count) == [i \in 1..ceil_div_8(row_count) |-> 0]

\* ValidityBitmap::new_all_valid
validity_new_all_valid(row_count) ==
    IF ceil_div_8(row_count) = 0 THEN <<>>
    ELSE [i \in 1..ceil_div_8(row_count) |->
             IF i = ceil_div_8(row_count) /\ row_count % 8 # 0
             THEN Pow2(row_count % 8) - 1 ELSE 255]

\* ValidityBitmap::set: the result and the bytes afterwards
validity_set(bytes, row, is_valid) ==
    IF row \div 8 >= Len(bytes) THEN [err |-> "validity bitmap out of bounds", bytes |-> bytes]
    ELSE [err |-> "Ok",
          bytes |-> [bytes EXCEPT ![(row \div 8) + 1] =
                        IF is_valid = BitSet(bytes, row) THEN @
                        ELSE IF is_valid THEN @ + Pow2(row % 8) ELSE @ - Pow2(row % 8)]]

\* ValidityBitmap::is_valid: "true", "false" or the error message
validity_is_valid(bytes, row) ==
    IF row \div 8 >= Len(bytes) THEN "validity bitmap out of bounds"
    ELSE IF BitSet(bytes, row) THEN "true" ELSE "false"

NewAllValid(n) ==
    /\ bitmap' = validity_new_all_valid(n) /\ bitmap_rows' = n
    /\ res' = "Ok" /\ op' = "new_all_valid"
    /\ UNCHANGED <<batch, view, ws, out, dws, decoded, target, cws, cdws, comp, bound, row_idx,
                   call_arg, call_ret>>

NewAllInvalid(n) ==
    /\ bitmap' = validity_new_all_invalid(n) /\ bitmap_rows' = n
    /\ res' = "Ok" /\ op' = "new_all_invalid"
    /\ UNCHANGED <<batch, view, ws, out, dws, decoded, target, cws, cdws, comp, bound, row_idx,
                   call_arg, call_ret>>

\* bitmap.set(row, is_valid)
Set(row, is_valid) ==
    \E r \in {validity_set(bitmap, row, is_valid)} :
       /\ bitmap' = r.bytes /\ res' = r.err /\ row_idx' = row /\ op' = "set"
       /\ UNCHANGED <<batch, view, ws, out, dws, decoded, target, cws, cdws, comp, bound,
                      bitmap_rows, call_arg, call_ret>>

\* bitmap.is_valid(row)
IsValid(row) ==
    /\ res' = validity_is_valid(bitmap, row) /\ row_idx' = row /\ op' = "is_valid"
    /\ UNCHANGED <<batch, view, ws, out, dws, decoded, target, cws, cdws, comp, bound,
                   bitmap, bitmap_rows, call_arg, call_ret>>

\* ColumnarBatch::new(schema, row_count, columns): batch is what the caller passed, res
\* what validate said about it
New(b) ==
    /\ batch' = b /\ res' = validate(b) /\ op' = "batch_new"
    /\ UNCHANGED <<view, ws, out, dws, decoded, target, cws, cdws, comp, bound, bitmap,
                   bitmap_rows, row_idx, call_arg, call_ret>>

\* the row indices the caller passes: inside the row count, at it, above it inside the
\* last byte, and past the last byte
RowInputs == {0, 2, MaxBitmapRows - 1, MaxBitmapRows, MaxBitmapRows + 2, MaxBitmapRows + 7}

\* columns over the bitmap v with any number of values, any offsets and any data
NewColumns(v) ==
    {[variant |-> FixedVariant(ty), validity |-> v,
      values |-> [i \in 1..k |-> Zeros(elem_size(ty))]] :
        ty \in {"Bool", "I32"}, k \in 0..MaxWireRows}
    \cup {[variant |-> "Var", ty |-> "Utf8", validity |-> v, offsets |-> o, data |-> d] :
             d \in {<<>>, <<97>>, <<97, 98>>},
             o \in UNION {[1..k -> 0..2] : k \in 0..(MaxWireRows + 1)}}
    \cup {[variant |-> "Var", ty |-> "I64", validity |-> v, offsets |-> <<0, 0>>, data |-> <<>>]}

\* the columns paired into batches of two columns: a sound Bool column, and string
\* columns with sound offsets, with a wrong final offset, with decreasing offsets
PairedColumns(v) ==
    {c \in NewColumns(v) :
        \/ c.variant = "FixedBool" /\ Len(c.values) = 1
        \/ c.variant = "Var" /\ c.ty = "Utf8" /\ c.data = <<97>>
           /\ c.offsets \in {<<0, 1>>, <<0, 2>>, <<1, 0>>, <<1, 1>>}}

\* what the caller passes to ColumnarBatch::new: no field, more or fewer columns than
\* fields, and one or two columns under fields of any type
NewBatches(v) ==
    {[schema |-> s, row_count |-> 1, columns |-> cs] :
        s \in {<<>>, <<[name |-> NoName, ty |-> "Bool"]>>},
        cs \in {<<>>, <<new_all_invalid("Bool", 1)>>,
                <<new_all_invalid("Bool", 1), new_all_invalid("Bool", 1)>>}}
    \cup {[schema |-> <<[name |-> NoName, ty |-> t]>>, row_count |-> n, columns |-> <<c>>] :
             t \in {"Bool", "Utf8", "I64"}, n \in 0..MaxWireRows, c \in NewColumns(v)}
    \cup {[schema |-> <<[name |-> NoName, ty |-> t1], [name |-> NoName, ty |-> t2]>>,
           row_count |-> 1, columns |-> <<c1, c2>>] :
             t1 \in {"Bool", "Utf8"}, t2 \in {"Bool", "Utf8"},
             c1 \in PairedColumns(v), c2 \in PairedColumns(v)}

InitBatch ==
    /\ batch = NoBatch /\ view = NoBatch
    /\ ws = DefaultEncodeWorkspace
    /\ out = <<>> /\ res = "none" /\ op = "init"
    /\ dws = DefaultDecodeWorkspace /\ decoded = NoBatch /\ target = NoBatch
    /\ cws = DefaultCompressedWorkspace /\ cdws = DefaultCompressedWorkspace
    /\ comp = CompressionNone /\ bound = 0
    /\ bitmap = <<>> /\ bitmap_rows = 0 /\ row_idx = 0
    /\ call_arg = <<>> /\ call_ret = <<>>

NextBatch ==
    \/ op # "batch_new" /\ \E n \in 0..MaxBitmapRows : NewAllValid(n)
    \/ op # "batch_new" /\ \E n \in 0..MaxBitmapRows : NewAllInvalid(n)
    \/ op # "batch_new" /\ \E row \in RowInputs, v \in BOOLEAN : Set(row, v)
    \/ op # "batch_new" /\ \E row \in RowInputs : IsValid(row)
    \/ op = "new_all_invalid" /\ \E b \in NewBatches(bitmap) : New(b)

SpecBatch == InitBatch /\ [][NextBatch]_vars

\* C19: a bitmap built for n rows has ceil(n/8) bytes; bit (i mod 8) of byte (i div 8),
\* least significant first, holds row i; new_all_valid sets every bit below n and none
\* at or above n, new_all_invalid none; after any calls of set that returned Ok the
\* bits at positions n and above are still zero, set and is_valid failing for a row
\* index of n or more
C19_BitmapShape ==
    /\ Len(bitmap) = (bitmap_rows + 7) \div 8
    /\ op \in {"new_all_valid", "new_all_invalid"} =>
          \A i \in 0..(8 * Len(bitmap) - 1) :
              RowValid(bitmap, i) <=> (op = "new_all_valid" /\ i < bitmap_rows)
    /\ \A i \in bitmap_rows..(8 * Len(bitmap) - 1) : ~RowValid(bitmap, i)
    /\ (op = "set" /\ res = "Ok") => row_idx < bitmap_rows
    /\ (op = "is_valid" /\ res \in {"true", "false"}) => row_idx < bitmap_rows

\* the type a column declares
DeclaredType(col) ==
    CASE col.variant = "Var" -> col.ty
      [] col.variant = "FixedBool" -> "Bool"
      [] col.variant = "FixedI32" -> "I32"

\* the first check a column fails against a field type and a row count, in the order
\* type, validity length, values length, offsets length, offsets[0], order of the
\* offsets, final offset
FirstColumnError(col, ty, n) ==
    IF DeclaredType(col) # ty THEN "column type mismatch"
    ELSE IF Len(col.validity) # (n + 7) \div 8 THEN "validity length mismatch"
    ELSE IF col.variant # "Var"
    THEN IF Len(col.values) # n THEN "values length mismatch" ELSE "Ok"
    ELSE IF Len(col.offsets) # n + 1 THEN "offsets length mismatch"
    ELSE IF col.offsets[1] # 0 THEN "offsets[0] must be 0"
    ELSE IF \E i \in 1..n : col.offsets[i] > col.offsets[i + 1]
    THEN "offsets must be non-decreasing"
    ELSE IF col.offsets[n + 1] # Len(col.data) THEN "final offset mismatch"
    ELSE "Ok"

\* the first check a batch fails: empty schema, number of columns, then the columns in
\* schema order
FirstBatchError(b) ==
    IF b.schema = <<>> THEN "columnar schema must have at least one field"
    ELSE IF Len(b.schema) # Len(b.columns) THEN "schema/columns length mismatch"
    ELSE LET bad == {i \in 1..Len(b.columns) :
                        FirstColumnError(b.columns[i], b.schema[i].ty, b.row_count) # "Ok"}
         IN IF bad = {} THEN "Ok"
            ELSE LET i == CHOOSE j \in bad : \A k \in bad : j <= k
                 IN FirstColumnError(b.columns[i], b.schema[i].ty, b.row_count)

-----------------------------------------------------------------------------
(* SpecView: the fast-path encoder on views a producer built wrongly.  A view is not
   validated when it is built, so the encoder meets every shape of view *)

\* the ways one column of row_count n can be built wrongly: a validity slice one byte
\* short or long, a values or offsets slice one element short or long, a first offset
\* of 1, two neighbouring offsets exchanged, a last offset one too large
ColumnFaults(c, n) ==
    {[c EXCEPT !.validity = <<>>], [c EXCEPT !.validity = Append(c.validity, 0)]}
    \cup (IF c.variant # "Var"
          THEN {[c EXCEPT !.values = SubSeq(c.values, 1, Len(c.values) - 1)],
                [c EXCEPT !.values = <<I64One>> \o c.values]}
          ELSE {[c EXCEPT !.offsets = SubSeq(c.offsets, 1, Len(c.offsets) - 1)],
                [c EXCEPT !.offsets = <<0>> \o c.offsets]}
               \cup (IF Len(c.offsets) < 3 THEN {}
                     ELSE {[c EXCEPT !.offsets[1] = 1],
                           [c EXCEPT !.offsets[2] = c.offsets[3], !.offsets[3] = c.offsets[2]],
                           [c EXCEPT !.offsets[Len(c.offsets)] =
                                         c.offsets[Len(c.offsets)] + 1]}))

\* a chunked view given one chunk too many or too few, a contiguous one a byte too many
DataFaults(c) ==
    IF c.variant # "Var" THEN {}
    ELSE IF c.data.kind = "Contiguous"
    THEN {[c EXCEPT !.data = Contiguous(Append(c.data.bytes, 97))]}
    ELSE {[c EXCEPT !.data = Chunks(c.data.inline, Append(c.data.chunks, <<97>>))],
          [c EXCEPT !.data = Chunks(c.data.inline, SubSeq(c.data.chunks, 1,
                                                          Len(c.data.chunks) - 1))]}

\* the views with one fault in one column, in the declared type of one field, in the
\* row count, or in the number of columns
ViewFaults(v) ==
    UNION {{[v EXCEPT !.columns[i] = c] :
               c \in ColumnFaults(v.columns[i], v.row_count) \cup DataFaults(v.columns[i])} :
           i \in 1..Len(v.columns)}
    \cup {[v EXCEPT !.schema[i].ty = OtherType(v.schema[i].ty)] : i \in 1..Len(v.schema)}
    \cup {WrongRowCount(v), [v EXCEPT !.columns = Append(v.columns, v.columns[1])],
          [v EXCEPT !.schema = <<>>]}

\* the views this specification hands to the encoder: the views of three batches, the
\* same views with one fault, and with two
ViewBases ==
    UNION {ViewsOf(b) : b \in {OneColumn(NoName, FallingColumn, MaxRows),
                               OneColumn(NoName, AlternatingColumn, MaxRows),
                               TwoColumns(RepeatColumn, ConstantColumn, MaxRows)}}

FaultyViews ==
    ViewBases \cup UNION {ViewFaults(v) : v \in ViewBases}
    \cup UNION {UNION {ViewFaults(f) : f \in ViewFaults(v) \ {[v EXCEPT !.schema = <<>>]}} :
                v \in ViewBases}

NextView ==
    \/ op \in {"init", "set_enable"} /\ \E e \in BOOLEAN : SetEnableDictUtf8(e)
    \/ op \in {"init", "set_enable"} /\ \E e \in BOOLEAN : SetEnableDeltaVarintI64(e)
    \/ op \in {"init", "set_enable"} /\ \E v \in FaultyViews : EncodeFastPath(v)
    \/ op = "fast_path" /\ res = "Ok" /\ \E v \in ViewFaults(view) : EncodeFastPath(v)

SpecView == Init /\ [][NextView]_vars

\* C21: the fast-path encoder returns for a view what owned-batch validation returns for
\* the batch the view presents (chunked data measured as inline plus chunks): the same
\* first failing check with the same message, and then the output buffer is left as it
\* was; a view that passes is encoded
C21_ViewValidation ==
    [][op' = "fast_path" =>
        \A r \in {validate(Coalesce(view'))} :
            /\ r # "Ok" => (res' = r /\ out' = out)
            /\ r = "Ok" => (res' = "Ok" /\ out' # <<>>)]_vars

\* a chunked view whose last offset counts the inline bytes only is refused, and the
\* frame of the encode before it is still in the buffer
C21_Witness ==
    /\ op = "fast_path" /\ res = "final offset mismatch" /\ out # <<>>
    /\ Len(view.columns) = 1 /\ view.columns[1].variant = "Var"
    /\ view.columns[1].data.kind = "Chunks"
    /\ view.columns[1].offsets[Len(view.columns[1].offsets)] = Len(view.columns[1].data.inline)
    /\ SumLen(view.columns[1].data.chunks) > 0

-----------------------------------------------------------------------------
(* SpecHelper: calls of the private helpers of the codec on arguments of their whole
   domain, beyond the ones the encoders pass them *)

\* the largest low byte of the words below
MaxLowByte == 31

\* 64-bit words: the integers -MaxLowByte-1 .. MaxLowByte, the integers next to
\* i64::MIN and i64::MAX (as u64: next to 2^63), and next to 2^56
HelperWords ==
    {WordFromLE(<<b, h, h, h, h, h, h, h>>) :
        b \in (0..MaxLowByte) \cup ((255 - MaxLowByte)..255), h \in {0, 255}}
    \cup {WordFromLE(<<b, h, h, h, h, h, h, t>>) :
            b \in {0, 1, 254, 255}, h \in {0, 255}, t \in {1, 127, 128}}

\* zigzag_i64_to_u64(x)
ZigzagEncode(x) ==
    /\ call_arg' = x /\ call_ret' = zigzag_i64_to_u64(x) /\ op' = "zigzag_i64_to_u64"
    /\ UNCHANGED <<batch, view, ws, out, res, dws, decoded, target, cws, cdws, comp, bound,
                   bitmap, bitmap_rows, row_idx>>

\* zigzag_u64_to_i64(x)
ZigzagDecode(x) ==
    /\ call_arg' = x /\ call_ret' = zigzag_u64_to_i64(x) /\ op' = "zigzag_u64_to_i64"
    /\ UNCHANGED <<batch, view, ws, out, res, dws, decoded, target, cws, cdws, comp, bound,
                   bitmap, bitmap_rows, row_idx>>

\* the bounds 0..MaxData+1, 255, 256, u32::MAX, 2^32, 2^63, u64::MAX - 1 and u64::MAX
HelperBounds ==
    {usize_as_u64(n) : n \in (0..(MaxData + 1)) \cup {255, 256}}
    \cup {<<255, 255, 255, 255, 0, 0, 0, 0>>, <<0, 0, 0, 0, 1, 0, 0, 0>>,
          <<0, 0, 0, 0, 0, 0, 0, 128>>,
          <<254, 255, 255, 255, 255, 255, 255, 255>>, U64Max}

\* what a streaming decompressor gives: up to MaxData + 1 bytes, or an error at once
HelperStreams ==
    {[ok |-> TRUE, bytes |-> [i \in 1..n |-> i]] : n \in 0..(MaxData + 1)}
    \cup {[ok |-> FALSE, bytes |-> <<>>]}

\* decode_with_max_bound(reader, max_uncompressed_len, &mut out)
DecodeWithMaxBound(stream, max_uncompressed_len, out0) ==
    \E r \in decode_with_max_bound(stream, max_uncompressed_len, out0) :
       /\ call_arg' = <<stream, max_uncompressed_len, out0>> /\ call_ret' = r
       /\ op' = "decode_with_max_bound"
       /\ UNCHANGED <<batch, view, ws, out, res, dws, decoded, target, cws, cdws, comp, bound,
                      bitmap, bitmap_rows, row_idx>>

\* the most rows of a column given to the dictionary builder
MaxDictRows == 4

\* the values of the rows of those columns
DictRowValues == {<<>>, <<97>>, <<98>>, <<97, 98>>}

\* the Utf8 column of n rows with the bytes rows[i] in row i and the validity bitmap v
DictColumn(n, rows, v) ==
    [row_count |-> n, validity |-> <<v>>,
     offsets |-> <<0>> \o DictOffsets(rows, 1, 0), data |-> Flatten(rows)]

\* build_dict_utf8_payload(&mut ws, validity, row_count, offsets, data)
BuildDictUtf8Payload(c) ==
    \E r \in {build_dict_utf8_payload(ws, c.validity, c.row_count, c.offsets, c.data)} :
       /\ call_arg' = c
       /\ call_ret' = [err |-> r.err, some |-> r.some, idx_bytes |-> r.idx_bytes,
                       dict_blob |-> r.dict_blob]
       /\ ws' = r.ws /\ op' = "build_dict_utf8_payload"
       /\ UNCHANGED <<batch, view, out, res, dws, decoded, target, cws, cdws, comp, bound,
                      bitmap, bitmap_rows, row_idx>>

\* the choice of the index width in build_dict_utf8_payload
IndexWidthFor(dict_count) ==
    /\ call_arg' = dict_count /\ call_ret' = index_width_for(dict_count)
    /\ op' = "index_width"
    /\ UNCHANGED <<batch, view, ws, out, res, dws, decoded, target, cws, cdws, comp, bound,
                   bitmap, bitmap_rows, row_idx>>

\* a + b in usize, for a usize of usize_bits bits and operands below 2^33; value is the
\* wrapped sum
usize_add(a, b, usize_bits) ==
    LET sum == AddBytes(a, b, 1, 0, <<>>)
    IN IF usize_bits = 64 THEN [overflow |-> FALSE, value |-> sum]
       ELSE [overflow |-> \E i \in 5..8 : sum[i] # 0,
             value |-> Slice(sum, 0, 4) \o <<0, 0, 0, 0>>]

PanicIndex == "panic: index out of bounds"

\* decode_dict_utf8_to_var_col on a target whose usize has usize_bits bits, built with or
\* without overflow checks.  The decoders above take usize as 64 bits wide, where no sum
\* of theirs leaves the type; here dict_count + 1 is computed in usize: it overflows for
\* dict_count = u32::MAX when usize has 32 bits, which panics under overflow checks and
\* wraps to 0 without them, leaving ws.dict_offsets empty for the row loop
decode_dict_utf8_to_var_col_on(usize_bits, overflow_checks, dw, row_count, validity, indices_bytes, dict_blob, out_offsets, out_data) ==
    IF row_count = 0 \/ Len(dict_blob) < 5 \/ dict_blob[1] \notin {1, 2, 4}
    THEN decode_dict_utf8_to_var_col(dw, row_count, validity, indices_bytes, dict_blob,
                                     out_offsets, out_data)
    ELSE
    LET bad(e, w) == [err |-> e, dws |-> w, offsets |-> out_offsets, data |-> out_data]
        index_width == dict_blob[1]
        dict_count == Slice(dict_blob, 1, 5) \o <<0, 0, 0, 0>>
        count1 == usize_add(dict_count, U64One, usize_bits)
        times2 == usize_add(count1.value, count1.value, usize_bits)
        times4 == usize_add(times2.value, times2.value, usize_bits)
        offsets_end == usize_add(usize_as_u64(5), times4.value, usize_bits)
        dw2 == [dw EXCEPT !.dict_offsets = <<>>]
        valid == {r \in 0..(row_count - 1) : BitSet(validity, r)}
    IN IF count1.overflow /\ overflow_checks THEN bad(PanicAddOverflow, dw)
       ELSE IF times2.overflow \/ times4.overflow \/ offsets_end.overflow
       THEN bad("dict offsets overflow", dw)
       ELSE IF ~ULe(offsets_end.value, usize_as_u64(Len(dict_blob)))
       THEN bad("dict offsets truncated", dw)
       ELSE IF ~count1.overflow
       THEN decode_dict_utf8_to_var_col(dw, row_count, validity, indices_bytes, dict_blob,
                                        out_offsets, out_data)
       ELSE IF Len(dict_blob) # 5 THEN bad("dict final offset mismatch", dw2)
       ELSE IF Len(indices_bytes) # row_count * index_width
       THEN bad("indices length mismatch", dw2)
       ELSE IF valid = {}
       THEN [err |-> "Ok", dws |-> dw2, offsets |-> [i \in 1..(row_count + 1) |-> 0],
             data |-> <<>>]
       ELSE LET row == CHOOSE r \in valid : \A q \in valid : r <= q
                idx == Slice(indices_bytes, row * index_width, (row + 1) * index_width)
                       \o [i \in 1..(8 - index_width) |-> 0]
                at_row(e) == [err |-> e, dws |-> dw2,
                              offsets |-> [i \in 1..(row + 1) |-> 0], data |-> <<>>]
            IN IF ULe(dict_count, idx) THEN at_row("dict index out of bounds")
               ELSE at_row(PanicIndex)

\* dictionary blobs: one entry "a"; no entry; dict_count u32::MAX under the widths 1 and
\* 4, and followed by a byte; dict_count 2^30 - 1; two bytes only
TargetDictBlobs ==
    {<<1, 1, 0, 0, 0>> \o write_u32_le(0) \o write_u32_le(1) \o <<97>>,
     <<1, 0, 0, 0, 0>> \o write_u32_le(0),
     <<1, 255, 255, 255, 255>>, <<4, 255, 255, 255, 255>>, <<1, 255, 255, 255, 255, 9>>,
     <<1, 255, 255, 255, 63>>, <<1, 1>>}

\* decode_dict_utf8_to_var_col(&mut ws, row_count, validity, indices_bytes, dict_blob,
\* &mut offsets, &mut data) on one of the targets
DecodeDictOn(usize_bits, overflow_checks, row_count, validity, indices_bytes, dict_blob) ==
    \E r \in {decode_dict_utf8_to_var_col_on(usize_bits, overflow_checks, dws, row_count,
                                             validity, indices_bytes, dict_blob, <<>>, <<>>)} :
       /\ call_arg' = [usize_bits |-> usize_bits, overflow_checks |-> overflow_checks,
                       row_count |-> row_count, validity |-> validity,
                       indices_bytes |-> indices_bytes, dict_blob |-> dict_blob]
       /\ call_ret' = [err |-> r.err, offsets |-> r.offsets, data |-> r.data]
       /\ dws' = r.dws /\ op' = "decode_dict_utf8_to_var_col"
       /\ UNCHANGED <<batch, view, ws, out, res, decoded, target, cws, cdws, comp, bound,
                      bitmap, bitmap_rows, row_idx>>

\* one call of a helper.  The dictionary builder gets every column of 1..MaxDictRows rows
\* over the row values and every validity bitmap, and is called again, on a column of
\* one row, with the workspace its last call left
NextHelper ==
    \/ op = "init" /\ \E x \in HelperWords : ZigzagEncode(x)
    \/ op = "init" /\ \E x \in HelperWords : ZigzagDecode(x)
    \/ op = "init" /\ \E s \in HelperStreams, m \in HelperBounds, o \in {<<>>, <<9>>} :
          DecodeWithMaxBound(s, m, o)
    \/ op = "init" /\ \E n \in 1..MaxDictRows :
          \E rows \in [1..n -> DictRowValues], v \in 0..(Pow2(n) - 1) :
             BuildDictUtf8Payload(DictColumn(n, rows, v))
    \/ op = "build_dict_utf8_payload" /\ \E rows \in [1..1 -> DictRowValues], v \in 0..1 :
          BuildDictUtf8Payload(DictColumn(1, rows, v))
    \/ op = "init" /\ \E n \in {1, 255, 256, 257, 65535, 65536, 65537} : IndexWidthFor(n)
    \/ op = "init" /\ \E usize_bits \in {32, 64}, overflow_checks \in BOOLEAN,
                         n \in 0..2, v \in {<<0>>, <<1>>, <<2>>, <<3>>},
                         ix \in {<<>>, <<0>>, <<0, 0>>, <<255, 255, 255, 255>>,
                                 <<0, 0, 0, 0>>},
                         blob \in TargetDictBlobs :
          DecodeDictOn(usize_bits, overflow_checks, n, v, ix, blob)

SpecHelper == Init /\ [][NextHelper]_vars

\* n -> (n << 1) XOR (n >> 63), the right shift arithmetic
ZigzagOf(n) == WXor(WShl(n, 1), WAshr(n, 63))

\* the word of a small integer -256 < k < 256
WordOfInt(k) == IF k >= 0 THEN WordOfByte(k) ELSE WNeg(WordOfByte(-k))

\* C22: zigzag_i64_to_u64 returns (n << 1) XOR (n >> 63) with an arithmetic shift, so
\* 0 -> 0, -1 -> 1, 1 -> 2, -2 -> 3, and zigzag_u64_to_i64 inverts it both ways
C22_ZigzagMapping ==
    /\ op = "zigzag_i64_to_u64" =>
          /\ call_ret = ZigzagOf(call_arg)
          /\ zigzag_u64_to_i64(call_ret) = call_arg
          /\ \A k \in {0, 1} : call_arg = WordOfInt(k) => call_ret = WordOfInt(2 * k)
          /\ \A k \in {1, 2} : call_arg = WordOfInt(-k) => call_ret = WordOfInt(2 * k - 1)
    /\ op = "zigzag_u64_to_i64" => zigzag_i64_to_u64(call_ret) = call_arg

\* C28: for every bound from 1 to the largest usize and a reader that gives n bytes,
\* decode_with_max_bound returns Ok with the n bytes when n is at most the bound and
\* the bound error when n is larger
C28_BoundExact ==
    (op = "decode_with_max_bound" /\ call_arg[1].ok /\ call_arg[2] # U64Zero) =>
        IF ULe(usize_as_u64(Len(call_arg[1].bytes)), call_arg[2])
        THEN call_ret = [err |-> "Ok", out |-> call_arg[1].bytes]
        ELSE call_ret.err = BoundErr

\* the bytes of row r (from 0) of a column, its valid rows, and the first valid row that
\* holds the bytes v
RowValue(c, r) == Slice(c.data, c.offsets[r + 1], c.offsets[r + 2])
ValidRows(c) == {r \in 0..(c.row_count - 1) : BitSet(c.validity, r)}
FirstRow(c, v) ==
    CHOOSE r \in ValidRows(c) :
        RowValue(c, r) = v /\ \A q \in ValidRows(c) : RowValue(c, q) = v => r <= q

\* C29: build_dict_utf8_payload leaves in the workspace the distinct values of the valid
\* rows in the order of their first occurrence, gives every valid row the index of its
\* value and every invalid row index 0, returns no dictionary when no row is valid, and
\* writes one index byte per row for up to 256 entries, two for up to 65536, else four
C29_DictInsertionOrder ==
    /\ op = "build_dict_utf8_payload" =>
          LET c == call_arg
              dv == ws.dict_values
              di == ws.dict_indices
          IN /\ call_ret.err = "Ok"
             /\ Len(di) = c.row_count
             /\ {dv[k] : k \in DOMAIN dv} = {RowValue(c, r) : r \in ValidRows(c)}
             /\ \A j, k \in DOMAIN dv : j < k => FirstRow(c, dv[j]) < FirstRow(c, dv[k])
             /\ \A r \in 0..(c.row_count - 1) :
                   IF r \in ValidRows(c) THEN dv[di[r + 1] + 1] = RowValue(c, r)
                   ELSE di[r + 1] = 0
             /\ ValidRows(c) = {} => (~call_ret.some /\ dv = <<>>)
             /\ call_ret.some =>
                   /\ call_ret.idx_bytes = di
                   /\ call_ret.dict_blob[1] = 1
                   /\ u32_from_le(call_ret.dict_blob, 1) = Len(dv)
    /\ op = "index_width" =>
          call_ret = IF call_arg <= 256 THEN 1 ELSE IF call_arg <= 65536 THEN 2 ELSE 4

\* a dictionary of two entries returned for four rows: the second is invalid and holds
\* bytes of its own, the first and the last hold the same bytes
C29_Witness ==
    /\ op = "build_dict_utf8_payload" /\ call_ret.some
    /\ call_arg.row_count = 4 /\ ValidRows(call_arg) = {0, 2, 3}
    /\ RowValue(call_arg, 1) = <<97, 98>>
    /\ ws.dict_values = <<<<97>>, <<98>>>> /\ ws.dict_indices = <<0, 0, 1, 0>>
    /\ call_ret.idx_bytes = <<0, 0, 1, 0>>

\* C30: the dictionary decoder returns Ok or Err for every blob, index image and
\* validity bitmap whose length fits the row count: no sum leaves usize and no index
\* leaves its slice
C30_DecoderTotality ==
    op = "decode_dict_utf8_to_var_col" => call_ret.err \notin {PanicAddOverflow, PanicIndex}

-----------------------------------------------------------------------------
(* The in-place decoder on failure and on reuse *)

\* C23: after decode_mathldbt_v1_into_with_workspace returned an error the target still
\* passes validate(): the validity, values and offsets lengths of every column agree
\* with its row_count
C23_NoPartialSuccess ==
    (op = "decode_into" /\ res # "Ok") => validate(target) = "Ok"

(* SpecReuse: one caller decodes a series of frames of one schema into the same target
   with the same decode workspace, a frame more than once *)

\* a Utf8 column of n one-byte rows, the byte repeated or alternating, every row valid
\* or none; an I64 column of n rows, constant or falling
ReuseColumns1(n) ==
    {[variant |-> "Var", ty |-> "Utf8", validity |-> v,
      offsets |-> [i \in 1..(n + 1) |-> i - 1], data |-> d] :
        v \in {AllValid(n), [i \in 1..ceil_div_8(n) |-> 0]},
        d \in {[i \in 1..n |-> 97], [i \in 1..n |-> IF i % 2 = 1 THEN 97 ELSE 98]}}

ReuseColumns2(n) ==
    {[variant |-> "FixedI64", validity |-> AllValid(n), values |-> vs] :
        vs \in {[i \in 1..n |-> I64One], [i \in 1..n |-> IF i = 1 THEN I64One ELSE I64Zero]}}

ReuseBatches ==
    UNION {{TwoColumns(c1, c2, n) : c1 \in ReuseColumns1(n), c2 \in ReuseColumns2(n)} :
           n \in 0..MaxRows}

\* a frame of no rows that declares the dictionary and the delta encoding
ZeroRowFrame ==
    push_col_descriptor(
        push_col_descriptor(build_minimal_header(0, 2), type_id("Utf8"), ENC_DICT_UTF8,
                            <<>>, 0, <<>>, <<>>, <<>>),
        type_id("I64"), ENC_DELTA_VARINT_I64, <<110>>, 0, <<>>, <<>>, <<>>)

\* the frames the owned encoder writes for these batches under the four settings of the
\* flags, and the frame of no rows
ReuseFrames ==
    {encode_mathldbt_v1_into_with_workspace(
         b, <<>>, set_enable_delta_varint_i64(set_enable_dict_utf8(DefaultEncodeWorkspace, d),
                                              v)).out :
        b \in ReuseBatches, d \in BOOLEAN, v \in BOOLEAN}
    \cup {ZeroRowFrame}

ReuseSchema == TwoColumns(RepeatColumn, ConstantColumn, MaxRows).schema

InitReuse ==
    /\ batch = NoBatch /\ view = NoBatch
    /\ ws = DefaultEncodeWorkspace
    /\ out = <<>> /\ res = "none" /\ op = "init"
    /\ dws = DefaultDecodeWorkspace /\ decoded = NoBatch
    /\ target = AllInvalidBatch(ReuseSchema, 0)
    /\ cws = DefaultCompressedWorkspace /\ cdws = DefaultCompressedWorkspace
    /\ comp = CompressionNone /\ bound = 0
    /\ bitmap = <<>> /\ bitmap_rows = 0 /\ row_idx = 0
    /\ call_arg = <<>> /\ call_ret = <<>>

NextReuse ==
    \/ (op = "init" \/ (op = "decode_into" /\ res = "Ok")) /\ \E f \in ReuseFrames : Receive(f)
    \/ (op = "receive" \/ (op = "decode_into" /\ res = "Ok")) /\ DecodeInto(target)

SpecReuse == InitReuse /\ [][NextReuse]_vars

\* C24: after an Ok return the target is what the same frame decodes to in a target
\* that was never used, with a decode workspace that was never used: nothing of the
\* earlier frames or of dict_offsets is left in it, and a second decode of the same
\* frame changes nothing
C24_TargetReuse ==
    (op = "decode_into" /\ res = "Ok") =>
        \A d \in {decode_mathldbt_v1_into_with_workspace(
                      out, AllInvalidBatch(ReuseSchema, 0), DefaultDecodeWorkspace)} :
            /\ d.err = "Ok" /\ target = d.out
            /\ \A e \in {decode_mathldbt_v1_into_with_workspace(out, target, dws)} :
                  e.err = "Ok" /\ e.out = target

\* a frame without a dictionary column was decoded into a target while the workspace
\* still held the dictionary offsets of an earlier, longer frame
C24_Witness ==
    /\ op = "decode_into" /\ res = "Ok"
    /\ target.row_count < MaxRows
    /\ Len(dws.dict_offsets) > 1
    /\ Len(Descriptors(out)) = 2 /\ Descriptors(out)[1].enc = ENC_PLAIN

-----------------------------------------------------------------------------
(* The flags of the encode workspace over a session *)

Flags(w) == <<w.enable_dict_utf8, w.enable_delta_varint_i64>>

\* C25: in a session the two flags change only in a set_enable_* call or in an
\* *_opt_with_workspace call; the latter leaves both set, a plain *_with_workspace encode
\* leaves them as they were, and a plain encode that follows an opt encode writes with
\* the dictionary or the delta encoding
C25_FlagsCarryOver ==
    [][/\ Flags(ws') # Flags(ws) => op' \in {"set_enable", "encode_opt", "fast_path_opt"}
       /\ op' \in {"encode", "fast_path"} => Flags(ws') = Flags(ws)
       /\ op' \in {"encode_opt", "fast_path_opt"} => Flags(ws') = <<TRUE, TRUE>>
       /\ (op \in {"encode_opt", "fast_path_opt"} /\ op' \in {"encode", "fast_path"}
           /\ res' = "Ok") =>
             \E i \in 1..Len(Descriptors(out')) :
                 Descriptors(out')[i].enc \in {ENC_DICT_UTF8, ENC_DELTA_VARINT_I64}]_vars

\* a plain encode ran with both flags set and wrote a delta column
C25_Witness ==
    /\ op = "encode" /\ res = "Ok" /\ Flags(ws) = <<TRUE, TRUE>>
    /\ Len(Descriptors(out)) = 1 /\ Descriptors(out)[1].enc = ENC_DELTA_VARINT_I64

-----------------------------------------------------------------------------
(* SpecLenient: frames that carry something in the fields version 1 reserves (header
   flags, schema id, column flags) or bytes after the last column *)

\* the longest tail appended to a frame
MaxTail == 2

\* bytes with the header flags set to flags and the schema id replaced by schema_id, as
\* far as the header is there
RewriteHeader(bytes, flags, schema_id) ==
    IF Len(bytes) < 12 THEN bytes
    ELSE LET f == Slice(bytes, 0, 10) \o write_u16_le(flags) \o Slice(bytes, 12, Len(bytes))
         IN IF Len(f) < 20 \/ 20 + u16_from_le(f, 18) > Len(f) THEN f
            ELSE Slice(f, 0, 18) \o write_u16_len_bytes(schema_id)
                 \o Slice(f, 20 + u16_from_le(f, 18), Len(f))

RECURSIVE RewriteColumns(_, _, _, _, _, _)
\* bytes with the column flags of column i, i+1, ... (k columns, the first at pos) set to
\* the entries of col_flags in turn, as far as the descriptors are there
RewriteColumns(bytes, pos, k, i, col_flags, row_count) ==
    IF k = 0 \/ Len(bytes) < pos + 6 THEN bytes
    ELSE LET b2 == Slice(bytes, 0, pos + 4)
                   \o write_u16_le(col_flags[((i - 1) % Len(col_flags)) + 1])
                   \o Slice(bytes, pos + 6, Len(bytes))
         IN The({IF h.err # "Ok" THEN b2
                 ELSE The({IF b.err # "Ok" THEN b2
                           ELSE RewriteColumns(b2, b.pos, k - 1, i + 1, col_flags, row_count) :
                           b \in {parse_col_body(b2, h.pos, ceil_div_8(row_count))}}) :
                 h \in {parse_col_head(b2, pos)}})

\* the frame that differs from bytes in the three reserved fields only
RewriteReserved(bytes, flags, schema_id, col_flags) ==
    The({IF Len(f) < 20 \/ 20 + u16_from_le(f, 18) > Len(f) THEN f
         ELSE RewriteColumns(f, 20 + u16_from_le(f, 18), u16_from_le(f, 16), 1, col_flags,
                             u32_from_le(f, 12)) :
         f \in {RewriteHeader(bytes, flags, schema_id)}})

\* bytes without what follows the last column descriptor; bytes itself when the
\* descriptors do not parse
RECURSIVE FrameEnd(_, _, _, _)
FrameEnd(bytes, pos, k, row_count) ==
    IF k = 0 THEN pos
    ELSE The({IF h.err # "Ok" THEN Len(bytes)
              ELSE The({IF b.err # "Ok" THEN Len(bytes)
                        ELSE FrameEnd(bytes, b.pos, k - 1, row_count) :
                        b \in {parse_col_body(bytes, h.pos, ceil_div_8(row_count))}}) :
              h \in {parse_col_head(bytes, pos)}})

WithoutTail(bytes) ==
    The({IF h.err # "Ok" THEN bytes
         ELSE Slice(bytes, 0, FrameEnd(bytes, h.pos, h.col_count, h.row_count)) :
         h \in {parse_header(bytes)}})

\* frames the owned encoder wrote with the optional encodings off and on, a frame of no
\* rows, and three hand-built frames of one column: a good one, one with a values
\* payload too short and one with a delta base cut off
LenientBases ==
    {encode_mathldbt_v1_into_with_workspace(
         b, <<>>, set_enable_delta_varint_i64(set_enable_dict_utf8(DefaultEncodeWorkspace, e),
                                              e)).out :
        b \in {TwoColumns(RepeatColumn, ConstantColumn, MaxRows),
               OneColumn(SomeName(<<110>>), AlternatingColumn, MaxRows)},
        e \in BOOLEAN}
    \cup {ZeroRowFrame,
          OneColumnFrame(1, "Bool", ENC_PLAIN, <<1>>, <<1>>, <<>>),
          OneColumnFrame(1, "Bool", ENC_PLAIN, <<1>>, <<>>, <<>>),
          OneColumnFrame(1, "I64", ENC_DELTA_VARINT_I64, <<1>>, Zeros(7), <<>>)}

\* the base frames under every choice of the reserved fields, and one of them cut at
\* every length
ReservedFrames ==
    {RewriteReserved(f, fl, sid, cf) :
        f \in LenientBases, fl \in {0, 1, 65535}, sid \in {<<>>, <<7, 7>>},
        cf \in {<<0>>, <<1>>, <<0, 256>>, <<65535, 0>>}}
    \cup {Slice(f, 0, k) :
            k \in 0..Len(RewriteReserved(ZeroRowFrame, 1, <<7, 7>>, <<1>>)),
            f \in {RewriteReserved(ZeroRowFrame, 1, <<7, 7>>, <<1>>)}}

\* the byte strings of at most n bytes over 0, 'M' and 255
Tails(n) == UNION {[1..k -> {0, 77, 255}] : k \in 0..n}

\* the base frames followed by a short tail or by a second frame
TailFrames ==
    {f \o t : f \in LenientBases, t \in Tails(MaxTail) \cup {ZeroRowFrame}}

NextLenient ==
    \/ op = "init" /\ \E f \in ReservedFrames \cup TailFrames : Receive(f)
    \/ op = "receive" /\ Decode
    \/ op = "receive" /\ \E t \in WireTargets(out) : DecodeInto(t)

SpecLenient == InitWire /\ [][NextLenient]_vars

\* C26: a decode returns what it returns for the frame with header flags 0, no schema id
\* and column flags 0: the same error, and the same batch (allocating) or the same
\* target (in place, from the same target)
C26_ReservedIgnored ==
    /\ op = "decode" =>
          \A d \in {decode_mathldbt_v1_with_workspace(RewriteReserved(out, 0, <<>>, <<0>>),
                                                      DefaultDecodeWorkspace)} :
              res = d.err /\ decoded = d.batch
    /\ op = "decode_into" =>
          \A t \in WireTargets(out) :
              \A full \in {decode_mathldbt_v1_into_with_workspace(out, t,
                                                                  DefaultDecodeWorkspace)},
                 d \in {decode_mathldbt_v1_into_with_workspace(
                            RewriteReserved(out, 0, <<>>, <<0>>), t, DefaultDecodeWorkspace)} :
                  (res = full.err /\ target = full.out) => (res = d.err /\ target = d.out)

\* a frame with header flags 0xFFFF, a two-byte schema id and flags 0xFFFF on its first
\* column decoded to a batch of two columns and MaxRows rows
C26_Witness ==
    /\ op = "decode" /\ res = "Ok" /\ decoded.row_count = MaxRows
    /\ Len(decoded.columns) = 2
    /\ u16_from_le(out, 10) = 65535 /\ u16_from_le(out, 18) = 2
    /\ out = RewriteReserved(out, 65535, <<7, 7>>, <<65535, 0>>)
    /\ out # RewriteReserved(out, 65535, <<7, 7>>, <<0>>)


\* C27: bytes after the last column descriptor are not looked at: when the frame without
\* them decodes, the frame with them decodes to the same batch (allocating) or the same
\* target (in place, from the same target)
C27_TrailingBytes ==
    /\ op = "decode" =>
          \A d \in {decode_mathldbt_v1_with_workspace(WithoutTail(out),
                                                      DefaultDecodeWorkspace)} :
              d.err = "Ok" => (res = "Ok" /\ decoded = d.batch)
    /\ op = "decode_into" =>
          \A t \in WireTargets(out) :
              \A full \in {decode_mathldbt_v1_into_with_workspace(out, t,
                                                                  DefaultDecodeWorkspace)},
                 d \in {decode_mathldbt_v1_into_with_workspace(WithoutTail(out), t,
                                                               DefaultDecodeWorkspace)} :
                  (res = full.err /\ target = full.out /\ d.err = "Ok")
                      => (res = "Ok" /\ target = d.out)

\* a frame of two columns followed by MaxTail bytes, the last of them 255, decoded in
\* place to MaxRows rows
C27_Witness ==
    /\ op = "decode_into" /\ res = "Ok" /\ target.row_count = MaxRows
    /\ Len(target.columns) = 2
    /\ Len(out) = Len(WithoutTail(out)) + MaxTail
    /\ out[Len(out)] = 255

====
